---- MODULE Spec2Model ----
(***************************************************************************)
(* State-machine model of the BLE discovery / pairing engine of the        *)
(* "search it." home screen (src/app/index.tsx), with the registration     *)
(* workflow of the same component.                                         *)
(*                                                                         *)
(* One step of the model is one task of the JavaScript event loop: the     *)
(* body of an event handler, timer or native-call continuation, together   *)
(* with the promise continuations it makes ready, followed by the React    *)
(* render and the effects whose dependencies changed.  Handlers are        *)
(* operators on a record holding the whole component state (State); an     *)
(* action applies a handler, runs the effects (Render) and commits.        *)
(* The platform is Android (Platform.OS === "android", API level >= 31).   *)
(***************************************************************************)
EXTENDS Integers, Sequences, FiniteSets, TLC

\* ------------------------------------------------------------------ bounds
MaxTasks    == 2      \* permission flows awaited at the same time
MaxAttempts == 2      \* pairing attempts started per run
MaxEdits    == 1      \* edit submissions per run
NumDevices  == 1      \* distinct radio identifiers in range
MaxCancels  == 1      \* dismissals of the scanning dialog per run
MaxObjects  == 4      \* registration confirmations per run
MaxSelectable == 2    \* list rows the user taps (the first MaxSelectable)
MaxCommands == 2      \* buzzer commands whose write or timer is pending

\* --------------------------------------------------------------- constants
TAGS == <<"tag1", "tag2", "tag3">>
TagValues == {TAGS[i] : i \in 1..Len(TAGS)}
ESP32_DEVICE_NAME == "ESP32-Locator"
OtherDeviceName == "Other-Device"
NoName == ""
DeviceNamesSeen == {ESP32_DEVICE_NAME, OtherDeviceName, NoName}
ErrBluetoothPoweredOff == 102
ErrDeviceDisconnected == 201
ErrOther == 600
ScanErrorCodes == {ErrBluetoothPoweredOff, ErrDeviceDisconnected, ErrOther}
Passwords == {"1234", "0000"}
EditNames == {"Keys"}
EditPasswords == {"", "0000"}
RegistrationPassword == "1234"
RegistrationName == "Wallet"
Placeholder == 0
DeviceIds == 1..NumDevices
NoRssi == 127
RssiValues == {-35, -95}
ConnectionLostBelow == -90
VeryNearFrom == -40
FarFrom == -60
SuperNearFrom == -55
NearFrom == -65
SearchFarFrom == -80
Readings == {-35, -40, -41, -55, -56, -60, -61, -65, -66, -80, -81, -95}
PollValues == {-90, -95}
NoDevice == 0

NoObject == [tag |-> "none", name |-> "", password |-> "", deviceId |-> Placeholder]
NoScan == [kind |-> "none", att |-> 0]
PassiveScan == [kind |-> "passive", att |-> 0]
TargetedScan(a) == [kind |-> "targeted", att |-> a]
NoAlert == ""
NotConnectedAlert == "Device not connected"
BuzzerFailedAlert == "Failed to control buzzer"
BUZZER_ON == "BUZZER_ON"
BUZZER_OFF == "BUZZER_OFF"
Payloads == {BUZZER_ON, BUZZER_OFF, "BUZZ_TOGGLE", ""}
NoEvent == [seen |-> FALSE, errorCode |-> 0, id |-> NoDevice, name |-> NoName,
            rssi |-> NoRssi]
NoNotification == [seen |-> FALSE, error |-> FALSE, value |-> ""]
NoRead == [done |-> FALSE, failed |-> FALSE, rssi |-> NoRssi]
NoInterval == [tag |-> "none", device |-> NoDevice]
FreeTask == [pc |-> "free", kind |-> "-", cur |-> FALSE]
NoEffect == [live |-> FALSE, scanActive |-> FALSE, bluetoothOff |-> FALSE, emitPending |-> FALSE]
FreeAttempt == [pc |-> "free", sel |-> NoObject, objects |-> <<>>, foundDevice |-> FALSE,
                resolved |-> "none", timer |-> "none", device |-> NoDevice]

Min(S) == CHOOSE x \in S : \A y \in S : x <= y

VARIABLES
  objects, storage, setupDone, permissionsRequested, loadPc,
  showForm, selectedTag, successModalVisible, confirmSaves,
  selectedObjectForPairing, pairAuthModalVisible, pairAuthPassword,
  scanningModalVisible,
  pairedSuccessModalVisible, showSearchActions, pairedObject,
  connectedDevice, rssiInterval,
  authModalVisible, incorrectPasswordModalVisible, editModalVisible,
  selectedObject, editSaves, editsDone, cancels,
  rssiMap, bluetoothOff,
  permissionModalVisible, pendingPermissionResolve,
  grantModalVisible, pendingGrantResolve,
  bleManager, scanEffect, scan, calls, adapter, appState,
  tasks, attempts, links,
  currentRssi, disconnectModalVisible, rssiRead,
  buzzerState, buzzerLoading, commands, pressed, alert, written,
  discovered, rendered, notified

vars == <<objects, storage, setupDone, permissionsRequested, loadPc,
  showForm, selectedTag, successModalVisible, confirmSaves,
  selectedObjectForPairing, pairAuthModalVisible, pairAuthPassword,
  scanningModalVisible,
  pairedSuccessModalVisible, showSearchActions, pairedObject,
  connectedDevice, rssiInterval,
  authModalVisible, incorrectPasswordModalVisible, editModalVisible,
  selectedObject, editSaves, editsDone, cancels,
  rssiMap, bluetoothOff,
  permissionModalVisible, pendingPermissionResolve,
  grantModalVisible, pendingGrantResolve,
  bleManager, scanEffect, scan, calls, adapter, appState,
  tasks, attempts, links,
  currentRssi, disconnectModalVisible, rssiRead,
  buzzerState, buzzerLoading, commands, pressed, alert, written,
  discovered, rendered, notified>>

\* The component state as one record.  calls is the list of radio-manager
\* calls issued by the current step, rssiRead the result of its readRSSI
\* call, pressed whether it was a press of the buzzer button, alert the
\* Alert it showed, written whether it wrote a command to the device and
\* discovered the event its passive scan callback received, notified the
\* notification its characteristic monitor received; rendered is
\* what the last render computed from the readings; objSet marks a setObjects call (a new
\* array identity), connSet a setConnectedDevice call with a new Device
\* object, and ovf a step that would exceed a bound.
State ==
  [objects |-> objects, storage |-> storage, setupDone |-> setupDone,
   permissionsRequested |-> permissionsRequested, loadPc |-> loadPc,
   showForm |-> showForm, selectedTag |-> selectedTag,
   successModalVisible |-> successModalVisible, confirmSaves |-> confirmSaves,
   selectedObjectForPairing |-> selectedObjectForPairing,
   pairAuthModalVisible |-> pairAuthModalVisible,
   pairAuthPassword |-> pairAuthPassword,
   scanningModalVisible |-> scanningModalVisible,
   pairedSuccessModalVisible |-> pairedSuccessModalVisible,
   showSearchActions |-> showSearchActions, pairedObject |-> pairedObject,
   connectedDevice |-> connectedDevice, rssiInterval |-> rssiInterval,
   authModalVisible |-> authModalVisible,
   incorrectPasswordModalVisible |-> incorrectPasswordModalVisible,
   editModalVisible |-> editModalVisible, selectedObject |-> selectedObject,
   editSaves |-> editSaves, editsDone |-> editsDone, cancels |-> cancels,
   rssiMap |-> rssiMap, bluetoothOff |-> bluetoothOff,
   permissionModalVisible |-> permissionModalVisible,
   pendingPermissionResolve |-> pendingPermissionResolve,
   grantModalVisible |-> grantModalVisible,
   pendingGrantResolve |-> pendingGrantResolve,
   bleManager |-> bleManager, scanEffect |-> scanEffect, scan |-> scan,
   calls |-> <<>>, adapter |-> adapter, appState |-> appState,
   tasks |-> tasks, attempts |-> attempts,
   links |-> links, currentRssi |-> currentRssi,
   disconnectModalVisible |-> disconnectModalVisible, rssiRead |-> NoRead,
   buzzerState |-> buzzerState, buzzerLoading |-> buzzerLoading,
   commands |-> commands, pressed |-> FALSE, alert |-> NoAlert,
   written |-> FALSE, discovered |-> NoEvent, notified |-> NoNotification,
   objSet |-> FALSE, connSet |-> FALSE, ovf |-> FALSE]

\* ------------------------------------------------- home-screen signal row
getSignalIconAboveOnly(rssi, bluetoothOffFlag) ==
  IF bluetoothOffFlag \/ rssi = NoRssi
  THEN [icon |-> "warning-outline", color |-> "#ff3b30", label |-> "n/a"]
  ELSE IF rssi > VeryNearFrom
  THEN [icon |-> "cellular", color |-> "#247eff", label |-> "very near"]
  ELSE IF rssi >= FarFrom
  THEN [icon |-> "cellular-outline", color |-> "#ffbb00", label |-> "far"]
  ELSE [icon |-> "cellular-outline", color |-> "#ffbb00", label |-> "far"]

getSignalIcon(rssi, bluetoothOffFlag) ==
  IF bluetoothOffFlag \/ rssi = NoRssi
  THEN [icon |-> "warning-outline", color |-> "#ff3b30", label |-> "n/a"]
  ELSE IF rssi >= VeryNearFrom
  THEN [icon |-> "cellular", color |-> "#247eff", label |-> "very near"]
  ELSE IF rssi >= FarFrom
  THEN [icon |-> "cellular-outline", color |-> "#ffbb00", label |-> "far"]
  ELSE [icon |-> "cellular-outline", color |-> "#ffbb00", label |-> "far"]

\* the signal section of the row of obj in the object list: signalValue is
\* the reading (NoRssi stands for the text "n/a"), signalLabel the label in
\* parentheses ("" when no label is shown)
signalSection(s, obj) ==
  LET rssi == s.rssiMap[obj.tag]
      signal == getSignalIcon(rssi, s.bluetoothOff)
      known == rssi # NoRssi /\ ~s.bluetoothOff
  IN [signalValue |-> IF known THEN rssi ELSE NoRssi,
      signalLabel |-> IF known THEN signal.label ELSE "",
      color |-> signal.color]

\* -------------------------------------------- search-actions signal row
getProximityOutOfOrder(rssi) ==
  IF rssi = NoRssi THEN ""
  ELSE IF rssi >= SuperNearFrom THEN "Super Near"
  ELSE IF rssi >= NearFrom THEN "Far"
  ELSE IF rssi >= SearchFarFrom THEN "Near"
  ELSE "Super Far"

getProximity(rssi) ==
  IF rssi = NoRssi THEN ""
  ELSE IF rssi >= SuperNearFrom THEN "Super Near"
  ELSE IF rssi >= NearFrom THEN "Near"
  ELSE IF rssi >= SearchFarFrom THEN "Far"
  ELSE "Super Far"

getSignalColor(rssi) ==
  IF rssi = NoRssi THEN "#bdbdbd"
  ELSE IF rssi >= SuperNearFrom THEN "#00c853"
  ELSE IF rssi >= NearFrom THEN "#ffd600"
  ELSE IF rssi >= SearchFarFrom THEN "#ff9100"
  ELSE "#d32f2f"

\* getSignalIcon of search-actions.tsx
getSignalIconOfSearchActions(rssi) ==
  IF rssi = NoRssi THEN "signal-off"
  ELSE IF rssi >= SuperNearFrom THEN "signal-cellular-3"
  ELSE IF rssi >= NearFrom THEN "signal-cellular-2"
  ELSE IF rssi >= SearchFarFrom THEN "signal-cellular-1"
  ELSE "signal-cellular-outline"

\* what a render computes from the readings: the classification of every
\* slot for the object list, and the proximity, colour and icon of the
\* search-actions screen
Rendering(s) ==
  [signal |-> [t \in TagValues |-> getSignalIcon(s.rssiMap[t], s.bluetoothOff)],
   proximity |-> getProximity(s.currentRssi),
   signalColor |-> getSignalColor(s.currentRssi),
   signalIcon |-> getSignalIconOfSearchActions(s.currentRssi)]

\* the step's result becomes the next state; the result is bound once
Commit(s0) ==
  \E s \in {s0} :
    /\ ~s.ovf
    /\ objects' = s.objects /\ storage' = s.storage /\ setupDone' = s.setupDone
    /\ permissionsRequested' = s.permissionsRequested /\ loadPc' = s.loadPc
    /\ showForm' = s.showForm /\ selectedTag' = s.selectedTag
    /\ successModalVisible' = s.successModalVisible
    /\ confirmSaves' = s.confirmSaves
    /\ selectedObjectForPairing' = s.selectedObjectForPairing
    /\ pairAuthModalVisible' = s.pairAuthModalVisible
    /\ pairAuthPassword' = s.pairAuthPassword
    /\ scanningModalVisible' = s.scanningModalVisible
    /\ pairedSuccessModalVisible' = s.pairedSuccessModalVisible
    /\ showSearchActions' = s.showSearchActions /\ pairedObject' = s.pairedObject
    /\ connectedDevice' = s.connectedDevice /\ rssiInterval' = s.rssiInterval
    /\ authModalVisible' = s.authModalVisible
    /\ incorrectPasswordModalVisible' = s.incorrectPasswordModalVisible
    /\ editModalVisible' = s.editModalVisible /\ selectedObject' = s.selectedObject
    /\ editSaves' = s.editSaves /\ editsDone' = s.editsDone /\ cancels' = s.cancels
    /\ rssiMap' = s.rssiMap /\ bluetoothOff' = s.bluetoothOff
    /\ permissionModalVisible' = s.permissionModalVisible
    /\ pendingPermissionResolve' = s.pendingPermissionResolve
    /\ grantModalVisible' = s.grantModalVisible
    /\ pendingGrantResolve' = s.pendingGrantResolve
    /\ bleManager' = s.bleManager /\ scanEffect' = s.scanEffect /\ scan' = s.scan
    /\ calls' = s.calls /\ adapter' = s.adapter /\ appState' = s.appState
    /\ tasks' = s.tasks /\ attempts' = s.attempts /\ links' = s.links
    /\ currentRssi' = s.currentRssi
    /\ disconnectModalVisible' = s.disconnectModalVisible
    /\ rssiRead' = s.rssiRead
    /\ buzzerState' = s.buzzerState /\ buzzerLoading' = s.buzzerLoading
    /\ commands' = s.commands /\ pressed' = s.pressed
    /\ alert' = s.alert /\ written' = s.written
    /\ discovered' = s.discovered
    /\ rendered' = Rendering(s)
    /\ notified' = s.notified

\* ------------------------------------------------------ radio collaborator
\* BleManager.stopDeviceScan: removes the manager's scan listener.
stopDeviceScan(s) ==
  [s EXCEPT !.calls = Append(@, [op |-> "stop", live |-> s.scan, listener |-> NoScan]),
            !.scan = NoScan]

\* BleManager.startDeviceScan: a manager has one scan listener; starting
\* replaces the listener of a scan that is still running.
startDeviceScan(s, listener) ==
  [s EXCEPT !.calls = Append(@, [op |-> "start", live |-> s.scan, listener |-> listener]),
            !.scan = listener]

\* BleManager.destroy: the manager and its listeners are gone.
destroy(s) ==
  [s EXCEPT !.calls = Append(@, [op |-> "destroy", live |-> s.scan, listener |-> NoScan]),
            !.scan = NoScan, !.bleManager = "destroyed"]

\* Object.fromEntries(objects.map((obj) => [obj.tag, null]))
initialRssiMap == [t \in TagValues |-> NoRssi]

\* ------------------------------------------------ passive scan session
spawnTask(s, kind) ==
  LET free == {i \in 1..MaxTasks : s.tasks[i].pc = "free"} IN
  IF free = {} THEN [s EXCEPT !.ovf = TRUE]
  ELSE [s EXCEPT !.tasks[Min(free)] = [pc |-> "rbp_get", kind |-> kind, cur |-> TRUE]]

\* startBleScan after the permission gate: reset readings, set the
\* scan-active flag of the effect instance the call belongs to, start.
startBleScanBody(s, cur) ==
  LET s1 == [s EXCEPT !.rssiMap = initialRssiMap,
                      !.scanEffect.scanActive = IF cur THEN TRUE ELSE @]
  IN startDeviceScan(s1, PassiveScan)

startBleScan(s) ==
  IF ~s.permissionsRequested THEN spawnTask(s, "scan")
  ELSE startBleScanBody(s, TRUE)

\* variant: a power-off report stops the scan and keeps the readings
onStateChangeKeepingReadings(s, state) ==
  IF state = "PoweredOff"
  THEN LET s1 == [s EXCEPT !.bluetoothOff = TRUE]
           s2 == IF s1.bleManager # "null" THEN stopDeviceScan(s1) ELSE s1
       IN [s2 EXCEPT !.scanEffect.scanActive = FALSE]
  ELSE IF state = "PoweredOn"
  THEN LET s1 == [s EXCEPT !.bluetoothOff = FALSE]
       IN IF ~s1.scanEffect.scanActive THEN startBleScan(s1) ELSE s1
  ELSE s

\* onStateChange callback of the scan effect
onStateChange(s, state) ==
  IF state = "PoweredOff"
  THEN LET s1 == [s EXCEPT !.bluetoothOff = TRUE, !.rssiMap = initialRssiMap]
           s2 == IF s1.bleManager # "null" THEN stopDeviceScan(s1) ELSE s1
       IN [s2 EXCEPT !.scanEffect.scanActive = FALSE]
  ELSE IF state = "PoweredOn"
  THEN LET s1 == [s EXCEPT !.bluetoothOff = FALSE]
       IN IF ~s1.scanEffect.scanActive THEN startBleScan(s1) ELSE s1
  ELSE s

\* handleAppStateChange of the scan effect; bluetoothOff is the value the
\* effect instance captured when it ran.
handleAppStateChange(s, nextAppState) ==
  IF nextAppState = "active"
  THEN IF ~s.scanEffect.bluetoothOff THEN startBleScan(s) ELSE s
  ELSE IF s.bleManager # "null" THEN stopDeviceScan(s) ELSE s

\* cleanup function returned by the scan effect
scanEffectCleanup(s) ==
  IF ~s.scanEffect.live THEN s
  ELSE LET s1 == destroy(stopDeviceScan(s))
       IN [s1 EXCEPT !.scanEffect = NoEffect,
                     !.tasks = [i \in 1..MaxTasks |->
                                  IF s1.tasks[i].kind = "scan"
                                  THEN [s1.tasks[i] EXCEPT !.cur = FALSE]
                                  ELSE s1.tasks[i]]]

\* variant: the scan effect is guarded by the number of objects alone
scanEffectRunIgnoringSetup(s) ==
  LET s1 == scanEffectCleanup(s) IN
  IF Len(s1.objects) < 3 THEN s1
  ELSE startBleScan([s1 EXCEPT !.bleManager = "live",
                               !.scanEffect = [live |-> TRUE, scanActive |-> FALSE,
                                               bluetoothOff |-> s1.bluetoothOff,
                                               emitPending |-> TRUE]])

\* the scan effect (useEffect on setupDone, objects, permissionsRequested)
scanEffectRun(s) ==
  LET s1 == scanEffectCleanup(s) IN
  IF ~s1.setupDone \/ Len(s1.objects) < 3 THEN s1
  ELSE startBleScan([s1 EXCEPT !.bleManager = "live",
                               !.scanEffect = [live |-> TRUE, scanActive |-> FALSE,
                                               bluetoothOff |-> s1.bluetoothOff,
                                               emitPending |-> TRUE]])

\* requestPermissionsAfterSetup (useEffect on objects, setupDone, permissionsRequested)
requestPermissionsAfterSetup(s) ==
  IF Len(s.objects) = 3 /\ ~s.setupDone
  THEN IF ~s.permissionsRequested THEN spawnTask(s, "setup")
       ELSE LET free == {i \in 1..MaxTasks : s.tasks[i].pc = "free"} IN
            IF free = {} THEN [s EXCEPT !.ovf = TRUE]
            ELSE [s EXCEPT !.storage.setupDone = TRUE,
                           !.tasks[Min(free)] = [pc |-> "setup_set", kind |-> "setup", cur |-> TRUE]]
  ELSE s

\* stopRSSIMonitoring
stopRSSIMonitoring(s) == [s EXCEPT !.rssiInterval = NoInterval]

\* cleanup of the effect on connectedDevice: runs with the device the
\* previous render held
connectedDeviceCleanup(s, prev) == stopRSSIMonitoring(s)

\* An attempt whose closures can no longer run: its promise chain ended or
\* its scan listener is gone, and its timer is not armed.
DeadAttempt(s, a) ==
  /\ s.attempts[a].timer # "armed"
  /\ \/ s.attempts[a].pc = "end"
     \/ s.attempts[a].pc = "scan" /\ s.scan # TargetedScan(a)

\* forget what dead closures captured
releaseClosures(s) ==
  [s EXCEPT !.attempts = [a \in 1..MaxAttempts |->
     IF DeadAttempt(s, a)
     THEN [FreeAttempt EXCEPT !.pc = "end", !.resolved = s.attempts[a].resolved]
     ELSE IF s.attempts[a].pc = "end"
     THEN [FreeAttempt EXCEPT !.pc = "end", !.resolved = s.attempts[a].resolved,
                              !.timer = s.attempts[a].timer,
                              !.foundDevice = s.attempts[a].foundDevice]
     ELSE s.attempts[a]]]

\* the SearchActions component is rendered instead of the home screen
SearchScreen(s) == s.showSearchActions /\ s.pairedObject # NoObject

\* the bluetoothOff prop of SearchActions: the home component passes
\* object, rssi, onBack and connectedDevice, so the prop has its default
bluetoothOffProp(s) == FALSE

\* state of the SearchActions component: created with useState(rssi) and
\* useState(false) when the component mounts, gone when it unmounts; the
\* effect on the bluetoothOff prop raises the "Connection Lost" modal
searchActionsState(old, s) ==
  IF ~SearchScreen(s)
  THEN [s EXCEPT !.currentRssi = NoRssi, !.disconnectModalVisible = FALSE,
                 !.buzzerState = FALSE, !.buzzerLoading = FALSE,
                 !.commands = [c \in 1..MaxCommands |-> "free"]]
  ELSE LET s1 == IF ~SearchScreen(old)
                 THEN [s EXCEPT !.currentRssi = s.rssiMap[s.pairedObject.tag],
                                !.disconnectModalVisible = FALSE,
                                !.buzzerState = FALSE, !.buzzerLoading = FALSE]
                 ELSE s
       IN IF bluetoothOffProp(s1) /\ (~SearchScreen(old) \/ ~bluetoothOffProp(old))
          THEN [s1 EXCEPT !.disconnectModalVisible = TRUE]
          ELSE s1

\* The render that follows a step: effects whose dependencies changed.
Render(old, new) ==
  LET depsChanged == \/ new.objSet
                     \/ new.setupDone # old.setupDone
                     \/ new.permissionsRequested # old.permissionsRequested
      s1 == IF depsChanged THEN scanEffectRun(requestPermissionsAfterSetup(new)) ELSE new
      s2 == IF new.connSet \/ new.connectedDevice # old.connectedDevice
            THEN connectedDeviceCleanup(s1, old.connectedDevice) ELSE s1
      s3 == searchActionsState(old, s2)
  IN releaseClosures([s3 EXCEPT !.objSet = FALSE, !.connSet = FALSE])

Step(s0, s1) == Commit(Render(s0, s1))

\* ------------------------------------------------------- permission flow
\* End of a caller's permission flow.  startBleScan returns unless both
\* prompts succeeded; requestPermissionsAfterSetup goes on to mark the setup
\* as done whatever the answer was.
finishPerm(s, t, granted) ==
  IF s.tasks[t].kind = "scan"
  THEN LET s1 == [s EXCEPT !.tasks[t] = FreeTask]
       IN IF granted THEN startBleScanBody(s1, s.tasks[t].cur) ELSE s1
  ELSE [s EXCEPT !.storage.setupDone = TRUE, !.tasks[t].pc = "setup_set"]

\* requestBlePermissionsCustom after its AsyncStorage.getItem
requestBlePermissionsCustom(s, t) ==
  IF s.storage.permissionsRequested
  THEN [s EXCEPT !.tasks[t].pc = "arp_get"]
  ELSE [s EXCEPT !.permissionModalVisible = TRUE,
                 !.pendingPermissionResolve = t,
                 !.tasks[t].pc = "rbp_modal"]

\* Cancel / Continue / onRequestClose of the "Permissions Required" modal
answerPermissionModal(s, result) ==
  LET t  == s.pendingPermissionResolve
      s1 == [s EXCEPT !.permissionModalVisible = FALSE] IN
  IF t = 0 THEN s1
  ELSE LET s2 == [s1 EXCEPT !.pendingPermissionResolve = 0]
       IN IF result THEN [s2 EXCEPT !.tasks[t].pc = "arp_get"]
          ELSE finishPerm(s2, t, FALSE)

\* actuallyRequestPermissions after its AsyncStorage.getItem
actuallyRequestPermissions(s, t) ==
  IF s.storage.permissionsRequested THEN finishPerm(s, t, TRUE)
  ELSE [s EXCEPT !.tasks[t].pc = "sgm_get"]

\* showGrantModal after its AsyncStorage.getItem
showGrantModal(s, t) ==
  IF s.storage.permissionsRequested THEN [s EXCEPT !.tasks[t].pc = "sys"]
  ELSE [s EXCEPT !.grantModalVisible = TRUE,
                 !.pendingGrantResolve = t,
                 !.tasks[t].pc = "sgm_modal"]

\* Cancel / Grant / onRequestClose of the "Grant Permissions" modal
answerGrantModal(s, result) ==
  LET t  == s.pendingGrantResolve
      s1 == [s EXCEPT !.grantModalVisible = FALSE] IN
  IF t = 0 THEN s1
  ELSE LET s2 == [s1 EXCEPT !.pendingGrantResolve = 0]
       IN IF result THEN [s2 EXCEPT !.tasks[t].pc = "sys"]
          ELSE finishPerm(s2, t, FALSE)

\* PermissionsAndroid.requestMultiple returned
systemDialogResult(s, t, granted) ==
  IF granted
  THEN [s EXCEPT !.storage.permissionsRequested = TRUE, !.tasks[t].pc = "arp_set"]
  ELSE finishPerm(s, t, FALSE)

\* AsyncStorage.setItem(PERMISSIONS_REQUESTED_KEY) returned
permissionsSaved(s, t) ==
  finishPerm([s EXCEPT !.permissionsRequested = TRUE], t, TRUE)

\* AsyncStorage.setItem(SETUP_DONE_KEY) returned
setupSaved(s, t) == [s EXCEPT !.setupDone = TRUE, !.tasks[t] = FreeTask]

\* ------------------------------------------------------------ load effect
loadObjects(s) ==
  LET s1 == IF s.storage.objects # <<>>
            THEN [s EXCEPT !.objects = s.storage.objects, !.objSet = TRUE,
                           !.setupDone = IF Len(s.storage.objects) = 3 THEN TRUE ELSE @]
            ELSE s
  IN [s1 EXCEPT !.loadPc = "setup"]

loadSetupDone(s) ==
  [s EXCEPT !.setupDone = IF s.storage.setupDone THEN TRUE ELSE @, !.loadPc = "perm"]

loadPermissionsRequested(s) ==
  [s EXCEPT !.permissionsRequested = IF s.storage.permissionsRequested THEN TRUE ELSE @,
            !.loadPc = "done"]

\* ------------------------------------------------- passive scan callback
passiveScanCallbackKeepingFirst(s0, errorCode, id, name, rssi) ==
  LET s == [s0 EXCEPT !.discovered = [seen |-> TRUE, errorCode |-> errorCode, id |-> id,
                                      name |-> name, rssi |-> rssi]] IN
  IF errorCode # 0
  THEN IF errorCode = ErrBluetoothPoweredOff \/ errorCode = ErrDeviceDisconnected
       THEN [s EXCEPT !.bluetoothOff = TRUE, !.rssiMap = initialRssiMap]
       ELSE s
  ELSE IF id = NoDevice \/ name = NoName THEN s
  ELSE IF name = ESP32_DEVICE_NAME
       THEN [s EXCEPT !.rssiMap = [t \in TagValues |->
               IF (\E i \in 1..Len(s.objects) : s.objects[i].tag = t) /\ @[t] = NoRssi
               THEN rssi ELSE @[t]]]
       ELSE s

passiveScanCallbackAnyName(s0, errorCode, id, name, rssi) ==
  LET s == [s0 EXCEPT !.discovered = [seen |-> TRUE, errorCode |-> errorCode, id |-> id,
                                      name |-> name, rssi |-> rssi]] IN
  IF errorCode # 0
  THEN IF errorCode = ErrBluetoothPoweredOff \/ errorCode = ErrDeviceDisconnected
       THEN [s EXCEPT !.bluetoothOff = TRUE, !.rssiMap = initialRssiMap]
       ELSE s
  ELSE IF id = NoDevice \/ name = NoName THEN s
  ELSE [s EXCEPT !.rssiMap = [t \in TagValues |->
          IF \E i \in 1..Len(s.objects) : s.objects[i].tag = t THEN rssi ELSE @[t]]]

passiveScanCallbackAnyError(s0, errorCode, id, name, rssi) ==
  LET s == [s0 EXCEPT !.discovered = [seen |-> TRUE, errorCode |-> errorCode, id |-> id,
                                      name |-> name, rssi |-> rssi]] IN
  IF errorCode # 0
  THEN [s EXCEPT !.bluetoothOff = TRUE, !.rssiMap = initialRssiMap]
  ELSE IF id = NoDevice \/ name = NoName THEN s
  ELSE IF name = ESP32_DEVICE_NAME
       THEN [s EXCEPT !.rssiMap = [t \in TagValues |->
               IF \E i \in 1..Len(s.objects) : s.objects[i].tag = t THEN rssi ELSE @[t]]]
       ELSE s

passiveScanCallback(s0, errorCode, id, name, rssi) ==
  LET s == [s0 EXCEPT !.discovered = [seen |-> TRUE, errorCode |-> errorCode, id |-> id,
                                      name |-> name, rssi |-> rssi]] IN
  IF errorCode # 0
  THEN IF errorCode = ErrBluetoothPoweredOff \/ errorCode = ErrDeviceDisconnected
       THEN [s EXCEPT !.bluetoothOff = TRUE, !.rssiMap = initialRssiMap]
       ELSE s
  ELSE IF id = NoDevice \/ name = NoName THEN s
  ELSE IF name = ESP32_DEVICE_NAME
       THEN [s EXCEPT !.rssiMap = [t \in TagValues |->
               IF \E i \in 1..Len(s.objects) : s.objects[i].tag = t THEN rssi ELSE @[t]]]
       ELSE s

\* ------------------------------------------------------------- screens
SetupScreen(s) == ~SearchScreen(s) /\ ~s.setupDone
MainScreen(s) == ~SearchScreen(s) /\ s.setupDone
PermissionModalShown(s) ==
  /\ ~SearchScreen(s) /\ s.permissionModalVisible
  /\ (s.setupDone => ~s.permissionsRequested)
GrantModalShown(s) ==
  /\ ~SearchScreen(s) /\ s.grantModalVisible
  /\ (s.setupDone => ~s.permissionsRequested)

\* ----------------------------------------------------------- actions
S0 == State

Load ==
  /\ loadPc # "done"
  /\ Step(S0, CASE loadPc = "objects" -> loadObjects(S0)
                [] loadPc = "setup" -> loadSetupDone(S0)
                [] OTHER -> loadPermissionsRequested(S0))

PermissionStep ==
  \E t \in 1..MaxTasks :
    \/ /\ tasks[t].pc = "rbp_get" /\ Step(S0, requestBlePermissionsCustom(S0, t))
    \/ /\ tasks[t].pc = "arp_get" /\ Step(S0, actuallyRequestPermissions(S0, t))
    \/ /\ tasks[t].pc = "sgm_get" /\ Step(S0, showGrantModal(S0, t))
    \/ /\ tasks[t].pc = "sys" /\ \E g \in BOOLEAN : Step(S0, systemDialogResult(S0, t, g))
    \/ /\ tasks[t].pc = "arp_set" /\ Step(S0, permissionsSaved(S0, t))

\* the end of requestPermissionsAfterSetup
SetupSaved ==
  \E t \in 1..MaxTasks :
    /\ tasks[t].pc = "setup_set"
    /\ Step(S0, setupSaved(S0, t))

AnswerPermissionModal ==
  /\ appState = "active" /\ PermissionModalShown(S0)
  /\ \E r \in BOOLEAN : Step(S0, answerPermissionModal(S0, r))

AnswerGrantModal ==
  /\ appState = "active" /\ GrantModalShown(S0)
  /\ \E r \in BOOLEAN : Step(S0, answerGrantModal(S0, r))

\* the adapter changes state; the scan effect's subscription is notified
AdapterStateChange ==
  \E st \in {"PoweredOn", "PoweredOff"} :
    /\ st # adapter
    /\ LET s1 == [S0 EXCEPT !.adapter = st]
       IN Step(S0, IF scanEffect.live THEN onStateChange(s1, st) ELSE s1)

\* onStateChange(cb, true): the subscription reports the current state once
EmitCurrentState ==
  /\ scanEffect.live /\ scanEffect.emitPending
  /\ Step(S0, onStateChange([S0 EXCEPT !.scanEffect.emitPending = FALSE], adapter))

AppStateChange ==
  \E nxt \in {"active", "inactive", "background"} :
    /\ nxt # appState
    /\ ~(appState = "background" /\ nxt = "inactive")
    /\ LET s1 == [S0 EXCEPT !.appState = nxt]
       IN Step(S0, IF scanEffect.live THEN handleAppStateChange(s1, nxt) ELSE s1)

PassiveScanError ==
  /\ scan.kind = "passive"
  /\ \E code \in ScanErrorCodes : Step(S0, passiveScanCallback(S0, code, NoDevice, NoName, NoRssi))

PassiveDiscovery ==
  /\ scan.kind = "passive" /\ adapter = "PoweredOn"
  /\ \E id \in DeviceIds \cup {NoDevice}, name \in DeviceNamesSeen, rssi \in RssiValues :
       Step(S0, passiveScanCallback(S0, 0, id, name, rssi))

\* ----------------------------------------------------------- registration
\* TAGS.filter((tag) => !objects.find((obj) => obj.tag === tag.value))
availableTags(s) ==
  {tg \in TagValues : ~\E i \in 1..Len(s.objects) : s.objects[i].tag = tg}

resetForm(s) == [s EXCEPT !.selectedTag = "none"]

handleShowForm(s) == resetForm([s EXCEPT !.showForm = TRUE])

\* validate: the tag must be chosen (name and password are typed validly)
validate(s) == s.selectedTag # "none"

\* onConfirm up to its await
onConfirm(s) ==
  IF ~validate(s) THEN s
  ELSE LET obj == [tag |-> s.selectedTag, name |-> RegistrationName,
                   password |-> RegistrationPassword, deviceId |-> Placeholder]
           updated == Append(s.objects, obj)
       IN [s EXCEPT !.objects = updated, !.objSet = TRUE, !.storage.objects = updated,
                    !.confirmSaves = @ + 1]

\* onConfirm after AsyncStorage.setItem
confirmSaved(s) == [s EXCEPT !.successModalVisible = TRUE, !.confirmSaves = @ - 1]

handleCloseSuccessModal(s) == resetForm([s EXCEPT !.successModalVisible = FALSE])

SetupInteractive(s) ==
  /\ SetupScreen(s) /\ s.appState = "active"
  /\ ~s.successModalVisible /\ ~PermissionModalShown(s) /\ ~GrantModalShown(s)

HandleShowForm ==
  /\ SetupInteractive(S0) /\ ~showForm
  /\ Step(S0, handleShowForm(S0))

\* the tag picker offers the tags not yet assigned
SetSelectedTag ==
  /\ SetupInteractive(S0) /\ showForm
  /\ \E tg \in availableTags(S0) :
       tg # selectedTag /\ Step(S0, [S0 EXCEPT !.selectedTag = tg])

OnConfirm ==
  /\ SetupInteractive(S0) /\ showForm /\ Len(objects) < MaxObjects
  /\ Step(S0, onConfirm(S0))

ConfirmSaved ==
  /\ confirmSaves > 0
  /\ Step(S0, confirmSaved(S0))

HandleCloseSuccessModal ==
  /\ SetupScreen(S0) /\ appState = "active" /\ successModalVisible
  /\ Step(S0, handleCloseSuccessModal(S0))

\* ------------------------------------------------------------- initial
RegisteredObject(t) ==
  [tag |-> t, name |-> RegistrationName, password |-> RegistrationPassword,
   deviceId |-> Placeholder]

InitCommon ==
  /\ objects = <<>> /\ setupDone = FALSE /\ permissionsRequested = FALSE
  /\ showForm = FALSE /\ selectedTag = "none" /\ successModalVisible = FALSE
  /\ confirmSaves = 0
  /\ selectedObjectForPairing = NoObject /\ pairAuthModalVisible = FALSE
  /\ pairAuthPassword = ""
  /\ scanningModalVisible = FALSE /\ pairedSuccessModalVisible = FALSE
  /\ showSearchActions = FALSE /\ pairedObject = NoObject
  /\ connectedDevice = NoDevice /\ rssiInterval = NoInterval
  /\ authModalVisible = FALSE /\ incorrectPasswordModalVisible = FALSE
  /\ editModalVisible = FALSE /\ selectedObject = NoObject
  /\ editSaves = 0 /\ editsDone = 0 /\ cancels = 0
  /\ rssiMap = initialRssiMap /\ bluetoothOff = FALSE
  /\ permissionModalVisible = FALSE /\ pendingPermissionResolve = 0
  /\ grantModalVisible = FALSE /\ pendingGrantResolve = 0
  /\ bleManager = "null" /\ scanEffect = NoEffect /\ scan = NoScan
  /\ calls = <<>> /\ appState = "active"
  /\ tasks = [i \in 1..MaxTasks |-> FreeTask]
  /\ attempts = [a \in 1..MaxAttempts |-> FreeAttempt]
  /\ links = {}
  /\ currentRssi = NoRssi /\ disconnectModalVisible = FALSE /\ rssiRead = NoRead
  /\ buzzerState = FALSE /\ buzzerLoading = FALSE
  /\ commands = [c \in 1..MaxCommands |-> "free"]
  /\ pressed = FALSE /\ alert = NoAlert /\ written = FALSE
  /\ discovered = NoEvent /\ notified = NoNotification
  /\ rendered = Rendering([rssiMap |-> rssiMap, bluetoothOff |-> bluetoothOff,
                           currentRssi |-> currentRssi])

\* a launch of the app after the three objects were registered
Init ==
  /\ InitCommon /\ loadPc = "objects"
  /\ adapter \in {"PoweredOn", "PoweredOff"}
  /\ \E p \in BOOLEAN :
       storage = [objects |-> [i \in 1..3 |-> RegisteredObject(TAGS[i])],
                  setupDone |-> TRUE, permissionsRequested |-> p]

ScanNext ==
  \/ Load
  \/ PermissionStep
  \/ AnswerPermissionModal
  \/ AnswerGrantModal
  \/ AdapterStateChange
  \/ EmitCurrentState
  \/ AppStateChange
  \/ PassiveScanError
  \/ PassiveDiscovery

SpecScan == Init /\ [][ScanNext]_vars
\* --------------------------------------------------------------- pairing
handleObjectSelect(s, obj) ==
  IF s.selectedObjectForPairing.tag = obj.tag
  THEN [s EXCEPT !.selectedObjectForPairing = NoObject]
  ELSE [s EXCEPT !.selectedObjectForPairing = obj]

\* showPairButton is set and cleared together with selectedObjectForPairing
showPairButton(s) == s.selectedObjectForPairing # NoObject

handlePairClick(s) ==
  IF s.selectedObjectForPairing = NoObject THEN s
  ELSE [s EXCEPT !.pairAuthPassword = "", !.pairAuthModalVisible = TRUE]

\* handlePairAuthSubmit after "await performRealBLEPairing()": runs when the
\* promise of attempt a is settled for the first time
pairingResolved(s, a, pairingSuccess) ==
  IF s.attempts[a].resolved # "pending" THEN s
  ELSE LET s1 == [s EXCEPT !.attempts[a].resolved = IF pairingSuccess THEN "true" ELSE "false",
                           !.scanningModalVisible = FALSE]
       IN IF pairingSuccess THEN [s1 EXCEPT !.pairedSuccessModalVisible = TRUE]
          ELSE [s1 EXCEPT !.selectedObjectForPairing = NoObject]

\* the record of the next attempt
FreeAttempts(s) == {a \in 1..MaxAttempts : s.attempts[a].pc = "free"}

\* handlePairAuthSubmit up to the first await of performRealBLEPairing
handlePairAuthSubmit(s) ==
  IF s.selectedObjectForPairing = NoObject THEN s
  ELSE IF s.pairAuthPassword = s.selectedObjectForPairing.password
  THEN LET s1 == [s EXCEPT !.pairAuthModalVisible = FALSE, !.scanningModalVisible = TRUE]
       IN IF s1.bleManager = "null"
          THEN [s1 EXCEPT !.scanningModalVisible = FALSE, !.selectedObjectForPairing = NoObject]
          ELSE IF FreeAttempts(s1) = {} THEN [s1 EXCEPT !.ovf = TRUE]
          ELSE [s1 EXCEPT !.attempts[Min(FreeAttempts(s1))] =
                  [FreeAttempt EXCEPT !.pc = "perm", !.sel = s.selectedObjectForPairing,
                                      !.objects = s.objects, !.resolved = "pending"]]
  ELSE [s EXCEPT !.pairAuthModalVisible = FALSE, !.incorrectPasswordModalVisible = TRUE]

\* performRealBLEPairing after requestAndroidBLEPermissions: stop any scan,
\* start the targeted scan, arm the 10 s timer
performRealBLEPairing(s, a, permissionsGranted) ==
  IF ~permissionsGranted
  THEN pairingResolved([s EXCEPT !.attempts[a].pc = "end"], a, FALSE)
  ELSE LET s1 == startDeviceScan(stopDeviceScan(s), TargetedScan(a))
       IN [s1 EXCEPT !.attempts[a].pc = "scan", !.attempts[a].timer = "armed"]

\* variant: the callback connects to every advertised locator
targetedScanCallbackUnguarded(s, a, error, name, id) ==
  IF error THEN pairingResolved(s, a, FALSE)
  ELSE IF name = ESP32_DEVICE_NAME
  THEN LET s1 == [s EXCEPT !.attempts[a].foundDevice = TRUE]
           s2 == stopDeviceScan(s1)
       IN [s2 EXCEPT !.attempts[a].pc = "connect", !.attempts[a].device = id]
  ELSE s

\* the scan callback of performRealBLEPairing
targetedScanCallback(s, a, error, name, id) ==
  IF error THEN pairingResolved(s, a, FALSE)
  ELSE IF s.attempts[a].foundDevice THEN s
  ELSE IF name = ESP32_DEVICE_NAME
  THEN LET s1 == [s EXCEPT !.attempts[a].foundDevice = TRUE]
           s2 == stopDeviceScan(s1)
       IN [s2 EXCEPT !.attempts[a].pc = "connect", !.attempts[a].device = id]
  ELSE s

\* device.connect() returned
connectReturned(s, a, ok) ==
  IF ok THEN [s EXCEPT !.attempts[a].pc = "discover"]
  ELSE pairingResolved([s EXCEPT !.attempts[a].pc = "end"], a, FALSE)

\* the object list written by a successful pairing: the list the attempt
\* captured, with the device id on the object of the captured selection
updatedObjects(objs, selTag, id) ==
  [i \in 1..Len(objs) |->
     IF objs[i].tag = selTag THEN [objs[i] EXCEPT !.deviceId = id] ELSE objs[i]]

\* variant: the device id is written before service discovery is known to
\* have succeeded
discoverReturnedBindingFirst(s, a, ok) ==
  LET upd == updatedObjects(s.attempts[a].objects, s.attempts[a].sel.tag,
                            s.attempts[a].device)
      s1  == [s EXCEPT !.objects = upd, !.objSet = TRUE, !.storage.objects = upd]
  IN IF ok THEN [s1 EXCEPT !.attempts[a].pc = "save"]
     ELSE pairingResolved([s1 EXCEPT !.attempts[a].pc = "end"], a, FALSE)

\* discoverAllServicesAndCharacteristics() returned
discoverReturned(s, a, ok) ==
  IF ok
  THEN LET upd == updatedObjects(s.attempts[a].objects, s.attempts[a].sel.tag,
                                 s.attempts[a].device)
       IN [s EXCEPT !.objects = upd, !.objSet = TRUE, !.storage.objects = upd,
                    !.attempts[a].pc = "save"]
  ELSE pairingResolved([s EXCEPT !.attempts[a].pc = "end"], a, FALSE)

startRSSIMonitoring(s, device, objectTag) ==
  [s EXCEPT !.rssiInterval = [tag |-> objectTag, device |-> device]]

\* AsyncStorage.setItem(STORAGE_KEY) returned: keep the connection, start
\* the RSSI poll, listen for disconnection, report success
objectsSaved(s, a) ==
  LET d  == s.attempts[a].device
      s1 == [s EXCEPT !.connectedDevice = d, !.connSet = TRUE]
      s2 == startRSSIMonitoring(s1, d, s.attempts[a].sel.tag)
      s3 == [s2 EXCEPT !.links = @ \cup {d}, !.attempts[a].pc = "end"]
  IN pairingResolved(s3, a, TRUE)

\* variant: the timer reports the failure and leaves the scan running
pairingTimeoutKeepingScan(s, a) ==
  LET s1 == [s EXCEPT !.attempts[a].timer = "done"] IN
  IF ~s.attempts[a].foundDevice
  THEN pairingResolved(s1, a, FALSE)
  ELSE s1

\* the setTimeout(..., 10000) callback of performRealBLEPairing
pairingTimeout(s, a) ==
  LET s1 == [s EXCEPT !.attempts[a].timer = "done"] IN
  IF ~s.attempts[a].foundDevice
  THEN pairingResolved(stopDeviceScan(s1), a, FALSE)
  ELSE s1

handlePairingSuccess(s) ==
  [s EXCEPT !.pairedSuccessModalVisible = FALSE,
            !.pairedObject = s.selectedObjectForPairing,
            !.showSearchActions = TRUE,
            !.selectedObjectForPairing = NoObject]

handleBackFromSearchActions(s) ==
  LET s1 == stopRSSIMonitoring([s EXCEPT !.showSearchActions = FALSE,
                                         !.pairedObject = NoObject])
  IN IF s1.connectedDevice # NoDevice THEN [s1 EXCEPT !.connectedDevice = NoDevice] ELSE s1

\* variant: a reading at the threshold also counts as a lost connection
updateRSSIAtThreshold(s, failed, rssiValue) ==
  LET s0 == [s EXCEPT !.rssiRead = [done |-> TRUE, failed |-> failed, rssi |-> rssiValue]] IN
  IF failed THEN [s0 EXCEPT !.disconnectModalVisible = TRUE]
  ELSE LET s1 == IF rssiValue # NoRssi THEN [s0 EXCEPT !.currentRssi = rssiValue] ELSE s0
       IN IF rssiValue = NoRssi \/ rssiValue <= ConnectionLostBelow
          THEN [s1 EXCEPT !.disconnectModalVisible = TRUE]
          ELSE s1

\* updateRSSI, the 1 s poll of the SearchActions component: readRSSI
\* failed, or returned rssiValue (NoRssi for null)
updateRSSI(s, failed, rssiValue) ==
  LET s0 == [s EXCEPT !.rssiRead = [done |-> TRUE, failed |-> failed, rssi |-> rssiValue]] IN
  IF failed THEN [s0 EXCEPT !.disconnectModalVisible = TRUE]
  ELSE LET s1 == IF rssiValue # NoRssi THEN [s0 EXCEPT !.currentRssi = rssiValue] ELSE s0
       IN IF rssiValue = NoRssi \/ rssiValue < ConnectionLostBelow
          THEN [s1 EXCEPT !.disconnectModalVisible = TRUE]
          ELSE s1

\* "Go Back" / onRequestClose of the "Connection Lost" modal
handleDisconnectModalClose(s) ==
  handleBackFromSearchActions([s EXCEPT !.disconnectModalVisible = FALSE,
                                        !.buzzerState = FALSE])

\* variant: the command is written whether or not a connection is held
handleBuzzerPressUnguarded(s, c) ==
  [s EXCEPT !.buzzerLoading = TRUE, !.written = TRUE, !.commands[c] = "write"]

\* handleBuzzerPress up to its await: command c is the write it issues
handleBuzzerPress(s, c) ==
  IF s.connectedDevice = NoDevice THEN [s EXCEPT !.alert = NotConnectedAlert]
  ELSE [s EXCEPT !.buzzerLoading = TRUE, !.written = TRUE, !.commands[c] = "write"]

\* variant: a write that returns arms no timer
writeReturnedWithoutTimer(s, c, ok) ==
  IF ok THEN [s EXCEPT !.commands[c] = "free"]
  ELSE [s EXCEPT !.buzzerLoading = FALSE, !.alert = BuzzerFailedAlert,
                 !.commands[c] = "free"]

\* writeCharacteristicWithResponseForService returned or threw
writeReturned(s, c, ok) ==
  IF ok THEN [s EXCEPT !.commands[c] = "timer"]
  ELSE [s EXCEPT !.buzzerLoading = FALSE, !.alert = BuzzerFailedAlert,
                 !.commands[c] = "free"]

\* variant: the timer takes the command as done and toggles the state
buzzerTimeoutToggling(s, c) ==
  [s EXCEPT !.buzzerLoading = FALSE, !.buzzerState = ~@, !.commands[c] = "free"]

\* the setTimeout(..., 3000) callback of handleBuzzerPress
buzzerTimeout(s, c) == [s EXCEPT !.buzzerLoading = FALSE, !.commands[c] = "free"]

\* variant: every notification without an error is taken as an acknowledgement
buzzerNotificationAnyPayload(s0, error, value) ==
  LET s == [s0 EXCEPT !.notified = [seen |-> TRUE, error |-> error, value |-> value]] IN
  IF error \/ value = "" THEN s
  ELSE IF value = BUZZER_ON
  THEN [s EXCEPT !.buzzerState = TRUE, !.buzzerLoading = FALSE]
  ELSE [s EXCEPT !.buzzerState = FALSE, !.buzzerLoading = FALSE]

\* the listener of monitorCharacteristicForService
buzzerNotification(s0, error, value) ==
  LET s == [s0 EXCEPT !.notified = [seen |-> TRUE, error |-> error, value |-> value]] IN
  IF error \/ value = "" THEN s
  ELSE IF value = BUZZER_ON
  THEN [s EXCEPT !.buzzerState = TRUE, !.buzzerLoading = FALSE]
  ELSE IF value = BUZZER_OFF
  THEN [s EXCEPT !.buzzerState = FALSE, !.buzzerLoading = FALSE]
  ELSE s

\* handleDeviceDisconnection as captured by the attempt that registered it:
\* showSearchActions was false in that render
handleDeviceDisconnection(s) ==
  [stopRSSIMonitoring(s) EXCEPT !.connectedDevice = NoDevice]

AnyMainModal(s) ==
  \/ s.pairAuthModalVisible \/ s.scanningModalVisible \/ s.pairedSuccessModalVisible
  \/ s.authModalVisible \/ s.incorrectPasswordModalVisible \/ s.editModalVisible
  \/ PermissionModalShown(s) \/ GrantModalShown(s)

MainInteractive(s) == MainScreen(s) /\ s.appState = "active" /\ ~AnyMainModal(s)
ModalInteractive(s) == MainScreen(s) /\ s.appState = "active"

HandleObjectSelect ==
  /\ MainInteractive(S0)
  /\ \E i \in 1..Len(objects) :
       i <= MaxSelectable /\ Step(S0, handleObjectSelect(S0, objects[i]))

HandlePairClick ==
  /\ MainInteractive(S0) /\ showPairButton(S0)
  /\ Step(S0, handlePairClick(S0))

ClosePairAuthModal ==
  /\ ModalInteractive(S0) /\ pairAuthModalVisible
  /\ Step(S0, [S0 EXCEPT !.pairAuthModalVisible = FALSE])

\* onChangeText of the pairing password field
SetPairAuthPassword ==
  /\ ModalInteractive(S0) /\ pairAuthModalVisible
  /\ \E pw \in Passwords :
       pw # pairAuthPassword /\ Step(S0, [S0 EXCEPT !.pairAuthPassword = pw])

HandlePairAuthSubmit ==
  /\ ModalInteractive(S0) /\ pairAuthModalVisible
  /\ Step(S0, handlePairAuthSubmit(S0))

CancelScanningModal ==
  /\ ModalInteractive(S0) /\ scanningModalVisible /\ cancels < MaxCancels
  /\ Step(S0, [S0 EXCEPT !.scanningModalVisible = FALSE, !.cancels = @ + 1])

PairingPermissionResult ==
  \E a \in 1..MaxAttempts :
    /\ attempts[a].pc = "perm"
    /\ \E g \in BOOLEAN : Step(S0, performRealBLEPairing(S0, a, g))

TargetedScanError ==
  \E a \in 1..MaxAttempts :
    /\ scan = TargetedScan(a)
    /\ Step(S0, targetedScanCallback(S0, a, TRUE, NoName, NoDevice))

TargetedDiscovery ==
  \E a \in 1..MaxAttempts :
    /\ scan = TargetedScan(a) /\ adapter = "PoweredOn"
    /\ \E name \in DeviceNamesSeen, id \in DeviceIds :
         Step(S0, targetedScanCallback(S0, a, FALSE, name, id))

ConnectReturned ==
  \E a \in 1..MaxAttempts :
    /\ attempts[a].pc = "connect"
    /\ \E ok \in BOOLEAN : Step(S0, connectReturned(S0, a, ok))

DiscoverReturned ==
  \E a \in 1..MaxAttempts :
    /\ attempts[a].pc = "discover"
    /\ \E ok \in BOOLEAN : Step(S0, discoverReturned(S0, a, ok))

ObjectsSaved ==
  \E a \in 1..MaxAttempts :
    /\ attempts[a].pc = "save"
    /\ Step(S0, objectsSaved(S0, a))

PairingTimeout ==
  \E a \in 1..MaxAttempts :
    /\ attempts[a].timer = "armed"
    /\ Step(S0, pairingTimeout(S0, a))

HandlePairingSuccess ==
  /\ ModalInteractive(S0) /\ pairedSuccessModalVisible
  /\ Step(S0, handlePairingSuccess(S0))

\* the interval of the SearchActions poll effect fires
UpdateRSSI ==
  /\ SearchScreen(S0) /\ connectedDevice # NoDevice
  /\ \/ Step(S0, updateRSSI(S0, TRUE, NoRssi))
     \/ /\ connectedDevice \in links /\ adapter = "PoweredOn"
        /\ \E v \in PollValues \cup {NoRssi} : Step(S0, updateRSSI(S0, FALSE, v))

\* the buzzer button; it is disabled while a command is pending
HandleBuzzerPress ==
  /\ SearchScreen(S0) /\ appState = "active"
  /\ ~disconnectModalVisible /\ ~buzzerLoading
  /\ \E c \in 1..MaxCommands :
       /\ commands[c] = "free"
       /\ \A d \in 1..MaxCommands : commands[d] = "free" => c <= d
       /\ Step(S0, handleBuzzerPress([S0 EXCEPT !.pressed = TRUE], c))

WriteReturned ==
  \E c \in 1..MaxCommands :
    /\ commands[c] = "write"
    /\ \E ok \in BOOLEAN : Step(S0, writeReturned(S0, c, ok))

BuzzerTimeout ==
  \E c \in 1..MaxCommands :
    /\ commands[c] = "timer"
    /\ Step(S0, buzzerTimeout(S0, c))

\* the device notifies on the characteristic the component monitors
BuzzerNotification ==
  /\ SearchScreen(S0) /\ connectedDevice # NoDevice /\ connectedDevice \in links
  /\ \/ Step(S0, buzzerNotification(S0, TRUE, ""))
     \/ \E value \in Payloads : Step(S0, buzzerNotification(S0, FALSE, value))

\* onBack is called by the "Connection Lost" modal only
HandleDisconnectModalClose ==
  /\ SearchScreen(S0) /\ appState = "active" /\ disconnectModalVisible
  /\ Step(S0, handleDisconnectModalClose(S0))

\* the connection of a device with an onDisconnected listener ended
DeviceDisconnected ==
  \E d \in links :
    Step(S0, handleDeviceDisconnection([S0 EXCEPT !.links = @ \ {d}]))

\* ------------------------------------------------------ authentication, edit
handleAuthRequest(s, obj) ==
  [s EXCEPT !.selectedObject = obj, !.authModalVisible = TRUE]

handleAuthSubmit(s, authPassword) ==
  IF s.selectedObject = NoObject THEN s
  ELSE IF authPassword = s.selectedObject.password
  THEN [s EXCEPT !.authModalVisible = FALSE, !.editModalVisible = TRUE]
  ELSE [s EXCEPT !.authModalVisible = FALSE, !.incorrectPasswordModalVisible = TRUE]

\* handleEditSubmit up to its await, for a form that passes validation
handleEditSubmit(s, editName, editPassword) ==
  IF s.selectedObject = NoObject THEN s
  ELSE LET upd == [i \in 1..Len(s.objects) |->
                     IF s.objects[i].tag = s.selectedObject.tag
                     THEN [s.objects[i] EXCEPT
                             !.name = editName,
                             !.password = IF editPassword # "" THEN editPassword ELSE @]
                     ELSE s.objects[i]]
       IN [s EXCEPT !.objects = upd, !.objSet = TRUE, !.storage.objects = upd,
                    !.editSaves = @ + 1, !.editsDone = @ + 1]

\* handleEditSubmit after AsyncStorage.setItem
editSaved(s) ==
  [s EXCEPT !.editModalVisible = FALSE, !.selectedObject = NoObject,
            !.editSaves = @ - 1]

\* "Try Again" of the Incorrect Password modal
incorrectPasswordTryAgain(s) ==
  LET s1 == [s EXCEPT !.incorrectPasswordModalVisible = FALSE] IN
  IF s.selectedObject # NoObject THEN [s1 EXCEPT !.authModalVisible = TRUE]
  ELSE [s1 EXCEPT !.pairAuthModalVisible = TRUE]

HandleAuthRequest ==
  /\ MainInteractive(S0)
  /\ \E i \in 1..Len(objects) :
       i <= MaxSelectable /\ Step(S0, handleAuthRequest(S0, objects[i]))

HandleAuthSubmit ==
  /\ ModalInteractive(S0) /\ authModalVisible
  /\ \E pw \in Passwords : Step(S0, handleAuthSubmit(S0, pw))

CloseAuthModal ==
  /\ ModalInteractive(S0) /\ authModalVisible
  /\ Step(S0, [S0 EXCEPT !.authModalVisible = FALSE])

HandleEditSubmit ==
  /\ ModalInteractive(S0) /\ editModalVisible /\ editsDone < MaxEdits
  /\ \E n \in EditNames, pw \in EditPasswords : Step(S0, handleEditSubmit(S0, n, pw))

EditSaved ==
  /\ editSaves > 0
  /\ Step(S0, editSaved(S0))

CloseEditModal ==
  /\ ModalInteractive(S0) /\ editModalVisible
  /\ Step(S0, [S0 EXCEPT !.editModalVisible = FALSE])

IncorrectPasswordTryAgain ==
  /\ ModalInteractive(S0) /\ incorrectPasswordModalVisible
  /\ Step(S0, incorrectPasswordTryAgain(S0))

IncorrectPasswordGoBack ==
  /\ ModalInteractive(S0) /\ incorrectPasswordModalVisible
  /\ Step(S0, [S0 EXCEPT !.incorrectPasswordModalVisible = FALSE])

EditNext ==
  \/ HandleAuthRequest
  \/ HandleAuthSubmit
  \/ CloseAuthModal
  \/ HandleEditSubmit
  \/ EditSaved
  \/ CloseEditModal
  \/ IncorrectPasswordTryAgain
  \/ IncorrectPasswordGoBack

PairNext ==
  \/ HandleObjectSelect
  \/ HandlePairClick
  \/ ClosePairAuthModal
  \/ SetPairAuthPassword
  \/ HandlePairAuthSubmit
  \/ CancelScanningModal
  \/ PairingPermissionResult
  \/ TargetedScanError
  \/ TargetedDiscovery
  \/ ConnectReturned
  \/ DiscoverReturned
  \/ ObjectsSaved
  \/ PairingTimeout
  \/ HandlePairingSuccess
  \/ UpdateRSSI
  \/ HandleDisconnectModalClose
  \/ DeviceDisconnected

\* the home screen some time after a launch with permissions granted: the
\* passive scan is running
InitPaired ==
  /\ objects = [i \in 1..3 |-> RegisteredObject(TAGS[i])]
  /\ storage = [objects |-> objects, setupDone |-> TRUE, permissionsRequested |-> TRUE]
  /\ setupDone = TRUE /\ permissionsRequested = TRUE /\ loadPc = "done"
  /\ showForm = FALSE /\ selectedTag = "none" /\ successModalVisible = FALSE
  /\ confirmSaves = 0
  /\ selectedObjectForPairing = NoObject /\ pairAuthModalVisible = FALSE
  /\ pairAuthPassword = ""
  /\ scanningModalVisible = FALSE /\ pairedSuccessModalVisible = FALSE
  /\ showSearchActions = FALSE /\ pairedObject = NoObject
  /\ connectedDevice = NoDevice /\ rssiInterval = NoInterval
  /\ authModalVisible = FALSE /\ incorrectPasswordModalVisible = FALSE
  /\ editModalVisible = FALSE /\ selectedObject = NoObject
  /\ editSaves = 0 /\ editsDone = 0 /\ cancels = 0
  /\ rssiMap = initialRssiMap /\ bluetoothOff = FALSE
  /\ permissionModalVisible = FALSE /\ pendingPermissionResolve = 0
  /\ grantModalVisible = FALSE /\ pendingGrantResolve = 0
  /\ bleManager = "live"
  /\ scanEffect = [live |-> TRUE, scanActive |-> TRUE, bluetoothOff |-> FALSE,
                   emitPending |-> FALSE]
  /\ scan = PassiveScan /\ calls = <<>> /\ adapter = "PoweredOn" /\ appState = "active"
  /\ tasks = [i \in 1..MaxTasks |-> FreeTask]
  /\ attempts = [a \in 1..MaxAttempts |-> FreeAttempt]
  /\ links = {}
  /\ currentRssi = NoRssi /\ disconnectModalVisible = FALSE /\ rssiRead = NoRead
  /\ buzzerState = FALSE /\ buzzerLoading = FALSE
  /\ commands = [c \in 1..MaxCommands |-> "free"]
  /\ pressed = FALSE /\ alert = NoAlert /\ written = FALSE
  /\ discovered = NoEvent /\ notified = NoNotification
  /\ rendered = Rendering([rssiMap |-> rssiMap, bluetoothOff |-> bluetoothOff,
                           currentRssi |-> currentRssi])

Next == PairNext

\* pairing attempts, also concurrent ones, on the running home screen
Spec == InitPaired /\ [][Next]_vars

\* the first pairing attempt of a run
HandleFirstPairAuthSubmit ==
  /\ \A a \in 1..MaxAttempts : attempts[a].pc = "free"
  /\ HandlePairAuthSubmit

EditPairNext ==
  \/ EditNext
  \/ HandleObjectSelect
  \/ HandlePairClick
  \/ ClosePairAuthModal
  \/ SetPairAuthPassword
  \/ HandleFirstPairAuthSubmit
  \/ CancelScanningModal
  \/ PairingPermissionResult
  \/ TargetedScanError
  \/ TargetedDiscovery
  \/ ConnectReturned
  \/ DiscoverReturned
  \/ ObjectsSaved
  \/ PairingTimeout
  \/ HandlePairingSuccess
  \/ UpdateRSSI
  \/ HandleDisconnectModalClose

\* a first launch, once the load effect found nothing stored
InitReg ==
  /\ InitCommon /\ loadPc = "done"
  /\ adapter = "PoweredOn"
  /\ storage = [objects |-> <<>>, setupDone |-> FALSE, permissionsRequested |-> FALSE]

RegNext ==
  \/ HandleShowForm
  \/ SetSelectedTag
  \/ OnConfirm
  \/ ConfirmSaved
  \/ HandleCloseSuccessModal
  \/ PermissionStep
  \/ SetupSaved
  \/ AnswerPermissionModal
  \/ AnswerGrantModal
  \/ EmitCurrentState

\* registration of the objects and the end of the setup
SpecReg == InitReg /\ [][RegNext]_vars

\* editing objects before, during and after one pairing attempt
SpecEdit == InitPaired /\ [][EditPairNext]_vars

\* ------------------------------------------------------------ properties
\* C1: at most one passive scan subscription is live at any time, and a
\* start request made while the passive scan is active starts nothing new:
\* no step issues startDeviceScan for the passive listener while a passive
\* scan is still live.
SinglePassiveSubscription ==
  \A i \in DOMAIN calls :
    (calls[i].op = "start" /\ calls[i].listener.kind = "passive")
      => calls[i].live.kind # "passive"

\* a pairing attempt is in flight: accepted and not yet concluded
InFlight(a) == attempts[a].resolved = "pending"

PairingHoldsRadio ==
  \/ \E a \in 1..MaxAttempts :
       InFlight(a) /\ attempts[a].pc \in {"scan", "connect", "discover", "save"}
  \/ connectedDevice # NoDevice /\ rssiInterval # NoInterval

\* C2: from the start of a targeted pairing scan, through connecting, and
\* while a connection with RSSI polling is held, no passive scan
\* subscription is live.
NoPassiveScanWhilePairing == PairingHoldsRadio => scan.kind # "passive"

\* C3: at most one pairing attempt is in flight at any time, also after the
\* progress dialog was dismissed with Cancel.
OnePairingInFlight ==
  Cardinality({a \in 1..MaxAttempts : InFlight(a)}) <= 1

\* the 10 s timer of attempt a fires in this step
TimerFired(a) == attempts[a].timer = "armed" /\ attempts'[a].timer # "armed"

\* attempt a has left its targeted scan: device found, or concluded
LeftTargetedScan(a) ==
  attempts[a].foundDevice \/ attempts[a].resolved # "pending" \/ attempts[a].pc = "end"

\* C4: the 10 s timer of an attempt that has left its targeted scan has no
\* effect when it fires: it stops neither the scan of a later attempt nor
\* the passive scan, and reports failure for no other attempt.
StaleTimerHasNoEffect ==
  [][\A a \in 1..MaxAttempts :
       (TimerFired(a) /\ LeftTargetedScan(a) /\ scan # TargetedScan(a))
         => /\ scan' = scan
            /\ \A b \in 1..MaxAttempts \ {a} :
                 attempts'[b].resolved = attempts[b].resolved]_vars

\* C5: when the 10 s timer fires and the attempt has found no device, the
\* targeted scan is stopped, the attempt ends as failed, and the objects are
\* unchanged in memory and in storage.
TimeoutEndsAttemptAsFailed ==
  [][\A a \in 1..MaxAttempts :
       (TimerFired(a) /\ ~attempts[a].foundDevice)
         => /\ scan' = NoScan
            /\ attempts'[a].resolved = "false"
            /\ InFlight(a) => ~scanningModalVisible'
            /\ objects' = objects
            /\ storage' = storage]_vars

\* a timer has just stopped the targeted scan of its own attempt, which
\* ended as failed
TimeoutEndsAttemptAsFailedWitness ==
  \E a \in 1..MaxAttempts :
    /\ calls = <<[op |-> "stop", live |-> TargetedScan(a), listener |-> NoScan]>>
    /\ attempts[a].pc = "end" /\ attempts[a].resolved = "false"
    /\ scan = NoScan /\ ~scanningModalVisible
    /\ \A i \in 1..Len(objects) : objects[i].deviceId = Placeholder

\* attempt a binds the device in this step
BindStep(a) == attempts[a].pc = "discover" /\ attempts'[a].pc = "save"

\* C6: on the happy path the attempt reports success and exactly the
\* selected object's deviceId becomes the radio's id in memory and in
\* storage; every other object is unchanged.
PairingBindsExactlySelected ==
  [][\A a \in 1..MaxAttempts :
       /\ BindStep(a) =>
            /\ Len(objects') = Len(objects)
            /\ \A i \in 1..Len(objects) :
                 objects'[i] = IF objects[i].tag = attempts[a].sel.tag
                               THEN [objects[i] EXCEPT !.deviceId = attempts[a].device]
                               ELSE objects[i]
            /\ storage'.objects = objects'
       /\ (attempts[a].pc = "save" /\ attempts'[a].pc = "end" /\ InFlight(a))
            => attempts'[a].resolved = "true"]_vars

\* the password typed in the pairing prompt differs from the password of
\* the selected object
PasswordMismatch ==
  /\ pairAuthModalVisible /\ selectedObjectForPairing # NoObject
  /\ \E i \in 1..Len(objects) :
       /\ objects[i].tag = selectedObjectForPairing.tag
       /\ objects[i].password # pairAuthPassword

\* C7: leaving the pairing prompt with a password that differs from the
\* selected object's password starts no pairing attempt and no targeted
\* scan, stops no scan, and leaves the objects unchanged in memory and in
\* storage.
WrongPasswordStartsNothing ==
  [][(PasswordMismatch /\ ~pairAuthModalVisible')
       => /\ attempts' = attempts
          /\ calls' = <<>> /\ scan' = scan
          /\ ~scanningModalVisible'
          /\ objects' = objects /\ storage' = storage]_vars

\* connect() or service discovery of attempt a fails in this step
ConnectFailed(a) ==
  attempts[a].pc \in {"connect", "discover"} /\ attempts'[a].pc = "end"

\* C8: when connect or service discovery fails, the attempt reports failure,
\* the objects are unchanged in memory and in storage, no connection handle
\* is kept and no RSSI polling starts.
ConnectFailureLeavesNothing ==
  [][\A a \in 1..MaxAttempts :
       ConnectFailed(a)
         => /\ attempts'[a].resolved = "false"
            /\ objects' = objects /\ storage' = storage
            /\ connectedDevice' = connectedDevice
            /\ rssiInterval' = rssiInterval
            /\ links' = links]_vars

\* an attempt found the device and ended as failed, and nothing is bound
ConnectFailureLeavesNothingWitness ==
  \E a \in 1..MaxAttempts :
    /\ attempts[a].pc = "end" /\ attempts[a].foundDevice
    /\ attempts[a].resolved = "false"
    /\ \A i \in 1..Len(objects) : objects[i].deviceId = Placeholder
    /\ \A i \in 1..Len(storage.objects) : storage.objects[i].deviceId = Placeholder
    /\ connectedDevice = NoDevice /\ rssiInterval = NoInterval /\ links = {}

\* C9: a bound radio id is held by at most one registered object.
BoundIdHeldByOneObject ==
  \A i, j \in 1..Len(objects) :
    (i # j /\ objects[i].deviceId # Placeholder)
      => objects[i].deviceId # objects[j].deviceId

\* C10: no two registered objects share a tag, and the list never holds
\* more than three objects.
UniqueTagsAtMostThree ==
  /\ Len(objects) <= 3
  /\ \A i, j \in 1..Len(objects) : i # j => objects[i].tag # objects[j].tag

\* the adapter is reported powered off to the scan effect in this step:
\* a change of the adapter state, or the first report of a new subscription
PoweredOffReported ==
  /\ scanEffect.live /\ adapter' = "PoweredOff"
  /\ \/ adapter = "PoweredOn"
     \/ scanEffect.emitPending /\ scanEffect'.live /\ ~scanEffect'.emitPending

\* C11: when the adapter is reported powered off, every object's reading is
\* unknown right after the event is handled, whatever it was before, and
\* no scan is left running.
PowerOffClearsReadings ==
  [][PoweredOffReported
       => /\ \A tg \in TagValues : rssiMap'[tg] = NoRssi
          /\ scan' = NoScan
          /\ bluetoothOff']_vars

\* a power-off report has just stopped the running passive scan
PowerOffClearsReadingsWitness ==
  /\ adapter = "PoweredOff" /\ bluetoothOff
  /\ calls = <<[op |-> "stop", live |-> PassiveScan, listener |-> NoScan]>>
  /\ scan = NoScan
  /\ \A tg \in TagValues : rssiMap[tg] = NoRssi

\* the adapter is reported powered on to the scan effect in this step
PoweredOnReported ==
  /\ scanEffect.live /\ adapter' = "PoweredOn"
  /\ \/ adapter = "PoweredOff"
     \/ scanEffect.emitPending /\ scanEffect'.live /\ ~scanEffect'.emitPending

\* C12: after the radio was marked off, a PoweredOn report clears the
\* radio-off flag and leaves a passive scan running, given the setup is
\* complete, the app is in the foreground and the permission is granted.
PowerOnRestartsPassiveScan ==
  [][(PoweredOnReported /\ bluetoothOff /\ setupDone /\ permissionsRequested
        /\ appState = "active")
       => ~bluetoothOff' /\ scan'.kind = "passive"]_vars

\* C13: when the app leaves the foreground the passive scan is stopped, and
\* no passive scan is running at any later moment before the app is active
\* again, whatever adapter reports or pending scan starts happen meanwhile.
NoPassiveScanOutsideForeground ==
  [][(appState' # "active" /\ (appState = "active" \/ scan.kind # "passive"))
       => scan'.kind # "passive"]_vars

ReturnToForeground == scanEffect.live /\ appState # "active" /\ appState' = "active"

\* C14: a return to the foreground starts the passive scan only if the radio
\* is on: when the adapter was reported off after the scan effect was set up
\* and is still off, the foreground transition issues no scan start.
ForegroundStartsScanOnlyIfRadioOn ==
  [][(ReturnToForeground /\ bluetoothOff /\ adapter = "PoweredOff")
       => /\ \A i \in 1..Len(calls') : calls'[i].op # "start"
          /\ scan'.kind # "passive"]_vars

\* the last radio call of the previous step stopped a running passive scan
PassiveScanJustStopped ==
  /\ calls # <<>>
  /\ calls[Len(calls)].op = "stop" /\ calls[Len(calls)].live = PassiveScan

\* C15: stopping the passive scan twice in a row issues one stop call to the
\* radio: when the last call stopped the passive scan, the next call the
\* program makes is not another stop.
SecondStopIsNoOp ==
  [][PassiveScanJustStopped => (calls' = <<>> \/ calls'[1].op # "stop")]_vars

\* the permission request of the scan effect ended without a grant: the
\* effect is set up, nothing was granted or stored, and no request is open
PermissionRefused ==
  /\ scanEffect.live /\ ~permissionsRequested /\ ~storage.permissionsRequested
  /\ \A t \in 1..MaxTasks : tasks[t].pc = "free"

\* C16: after the permission request was refused, a return to the foreground
\* or a PoweredOn report neither opens the permission request again nor
\* starts a passive scan.
RefusalIsNotRetried ==
  [][(PermissionRefused /\ (ReturnToForeground \/ PoweredOnReported))
       => /\ \A t \in 1..MaxTasks : tasks'[t].pc = "free"
          /\ scan'.kind # "passive"]_vars

\* C17: while the setup is not complete or fewer than 3 objects are
\* registered, no passive scan is running and the last step started none.
NoPassiveScanBeforeSetup ==
  (~setupDone \/ Len(objects) < 3)
    => /\ scan.kind # "passive"
       /\ \A i \in 1..Len(calls) : calls[i].listener # PassiveScan

\* three objects registered and the permission granted, the setup flag not
\* yet set: the scan effect has run and started nothing
NoPassiveScanBeforeSetupWitness ==
  /\ Len(objects) = 3 /\ ~setupDone /\ permissionsRequested
  /\ ~scanEffect.live /\ scan = NoScan

\* promises settle and timers fire: the steps of a pairing attempt that the
\* program takes without the user or the radio environment
PairingProgress ==
  \/ PairingPermissionResult
  \/ ConnectReturned
  \/ DiscoverReturned
  \/ ObjectsSaved
  \/ PairingTimeout

\* pairing on the running home screen, with every pending promise and timer
\* of an attempt eventually served
SpecLive == InitPaired /\ [][Next]_vars /\ WF_vars(PairingProgress)

\* a pairing attempt ended in failure
PairingFailed == \E a \in 1..MaxAttempts : attempts[a].resolved = "false"

\* a connection was made and has ended
ConnectionEnded ==
  /\ \E a \in 1..MaxAttempts : attempts[a].resolved = "true"
  /\ connectedDevice = NoDevice /\ ~showSearchActions

\* C18: after a pairing attempt ended in failure, and after a connection
\* ended, the passive scan is eventually running again (the adapter stays
\* on, the app stays in the foreground and the permission is granted in
\* every behaviour of SpecLive).
PassiveScanResumes ==
  /\ PairingFailed ~> (scan.kind = "passive")
  /\ ConnectionEnded ~> (scan.kind = "passive")

\* the search-actions screen is showing and a connection handle is held
Connected ==
  showSearchActions /\ pairedObject # NoObject /\ connectedDevice # NoDevice

\* the user leaves the screen: "Go Back" or the back key on the
\* "Connection Lost" modal, the only callers of onBack
UserLeavesSearchActions == disconnectModalVisible /\ ~disconnectModalVisible'

\* the connection held by the screen reports that it ended
UnsolicitedDisconnect == connectedDevice \in links /\ connectedDevice \notin links'

\* C19: from Connected, the user leaving the screen (back navigation, or
\* acknowledging the connection-lost notice raised by the poll) and an
\* unsolicited disconnect report each end in Disconnected: the
\* search-actions screen is closed, no connection handle is held and the
\* RSSI polling is stopped.
ConnectedEndsInDisconnected ==
  [][(Connected /\ (UserLeavesSearchActions \/ UnsolicitedDisconnect))
       => /\ ~showSearchActions' /\ pairedObject' = NoObject
          /\ connectedDevice' = NoDevice
          /\ rssiInterval' = NoInterval]_vars

\* the step was a poll of the connection shown on the search-actions screen
PollStep == Connected /\ rssiRead'.done

\* the poll failed, returned no value, or returned a value below the threshold
PollSignalsLoss ==
  rssiRead'.failed \/ rssiRead'.rssi = NoRssi \/ rssiRead'.rssi < ConnectionLostBelow

\* C20: while connected, a poll that fails, returns no value or returns a
\* value below -90 raises the connection-lost notice, a value of -90 or above
\* does not; the reading shown is never replaced by unknown and the polling
\* goes on.
PollRaisesConnectionLost ==
  [][PollStep
       => /\ PollSignalsLoss => disconnectModalVisible'
          /\ ~PollSignalsLoss => disconnectModalVisible' = disconnectModalVisible
          /\ currentRssi' = IF ~rssiRead'.failed /\ rssiRead'.rssi # NoRssi
                            THEN rssiRead'.rssi ELSE currentRssi
          /\ showSearchActions' /\ pairedObject' = pairedObject
          /\ connectedDevice' = connectedDevice]_vars

\* a poll returned -95 and the connection-lost notice is showing
PollRaisesConnectionLostWitness ==
  /\ showSearchActions /\ pairedObject # NoObject /\ connectedDevice # NoDevice
  /\ rssiRead.done /\ ~rssiRead.failed /\ rssiRead.rssi = -95
  /\ currentRssi = -95 /\ disconnectModalVisible

\* C21: while a connection made by a pairing is held, the 1 s RSSI poll of
\* the home component is armed for that connection; nothing but the end of
\* the connection stops it.
RssiPollArmedWhileConnected ==
  connectedDevice # NoDevice => rssiInterval.device = connectedDevice

ConnNext ==
  \/ HandleObjectSelect
  \/ HandlePairClick
  \/ SetPairAuthPassword
  \/ HandleFirstPairAuthSubmit
  \/ PairingPermissionResult
  \/ TargetedDiscovery
  \/ ConnectReturned
  \/ DiscoverReturned
  \/ ObjectsSaved
  \/ PairingTimeout
  \/ HandlePairingSuccess
  \/ UpdateRSSI
  \/ HandleDisconnectModalClose
  \/ HandleBuzzerPress
  \/ WriteReturned
  \/ BuzzerTimeout
  \/ BuzzerNotification
  \/ DeviceDisconnected
  \/ AdapterStateChange
  \/ EmitCurrentState

\* one pairing and the connection that follows, with the adapter switched
\* off and on
SpecConn == InitPaired /\ [][ConnNext]_vars

\* C22: when the adapter is reported powered off while the search-actions
\* screen shows a held connection, the loss of the connection is signalled
\* to the user (the "Connection Lost" notice, whose acknowledgement leaves
\* the screen) in the render that follows the report.
PowerOffSignalsConnectionLost ==
  [][(Connected /\ PoweredOffReported) => disconnectModalVisible']_vars

\* C23: a press of the buzzer button while no connection is held writes
\* nothing to the device, does not enter the pending state, leaves the buzzer
\* state unchanged and shows the not-connected error.
BuzzerPressFailsFastWithoutConnection ==
  [][(pressed' /\ connectedDevice = NoDevice)
       => /\ ~written' /\ commands' = commands
          /\ ~buzzerLoading'
          /\ buzzerState' = buzzerState
          /\ alert' = NotConnectedAlert]_vars

\* the buzzer was pressed on a search-actions screen whose connection had
\* ended, and the error was shown
BuzzerPressFailsFastWithoutConnectionWitness ==
  /\ showSearchActions /\ pairedObject # NoObject /\ connectedDevice = NoDevice
  /\ pressed /\ alert = NotConnectedAlert /\ ~written /\ ~buzzerLoading

\* the search-actions screen some time after the first object was paired
\* with device 1: the connection is held, the pairing attempt is over
InitSearchActions(readings, reading, radioOff) ==
  /\ objects = [i \in 1..3 |->
                  IF i = 1 THEN [RegisteredObject(TAGS[1]) EXCEPT !.deviceId = 1]
                  ELSE RegisteredObject(TAGS[i])]
  /\ storage = [objects |-> objects, setupDone |-> TRUE, permissionsRequested |-> TRUE]
  /\ setupDone = TRUE /\ permissionsRequested = TRUE /\ loadPc = "done"
  /\ showForm = FALSE /\ selectedTag = "none" /\ successModalVisible = FALSE
  /\ confirmSaves = 0
  /\ selectedObjectForPairing = NoObject /\ pairAuthModalVisible = FALSE
  /\ pairAuthPassword = RegistrationPassword
  /\ scanningModalVisible = FALSE /\ pairedSuccessModalVisible = FALSE
  /\ showSearchActions = TRUE /\ pairedObject = RegisteredObject(TAGS[1])
  /\ connectedDevice = 1 /\ rssiInterval = NoInterval
  /\ authModalVisible = FALSE /\ incorrectPasswordModalVisible = FALSE
  /\ editModalVisible = FALSE /\ selectedObject = NoObject
  /\ editSaves = 0 /\ editsDone = 0 /\ cancels = 0
  /\ rssiMap = readings /\ bluetoothOff = radioOff
  /\ permissionModalVisible = FALSE /\ pendingPermissionResolve = 0
  /\ grantModalVisible = FALSE /\ pendingGrantResolve = 0
  /\ bleManager = "live"
  /\ scanEffect = [live |-> TRUE, scanActive |-> TRUE, bluetoothOff |-> FALSE,
                   emitPending |-> FALSE]
  /\ scan = PassiveScan /\ calls = <<>> /\ adapter = "PoweredOn" /\ appState = "active"
  /\ tasks = [i \in 1..MaxTasks |-> FreeTask]
  /\ attempts = [a \in 1..MaxAttempts |->
                   IF a = 1 THEN [FreeAttempt EXCEPT !.pc = "end", !.resolved = "true"]
                   ELSE FreeAttempt]
  /\ links = {1}
  /\ currentRssi = reading /\ disconnectModalVisible = FALSE /\ rssiRead = NoRead
  /\ buzzerState = FALSE /\ buzzerLoading = FALSE
  /\ commands = [c \in 1..MaxCommands |-> "free"]
  /\ pressed = FALSE /\ alert = NoAlert /\ written = FALSE
  /\ discovered = NoEvent /\ notified = NoNotification
  /\ rendered = Rendering([rssiMap |-> rssiMap, bluetoothOff |-> bluetoothOff,
                           currentRssi |-> currentRssi])

InitConnected == InitSearchActions(initialRssiMap, NoRssi, FALSE)

CmdNext ==
  \/ HandleBuzzerPress
  \/ WriteReturned
  \/ BuzzerTimeout
  \/ BuzzerNotification
  \/ HandleDisconnectModalClose
  \/ UpdateRSSI
  \/ DeviceDisconnected

\* commands sent from the search-actions screen
SpecCmd == InitConnected /\ [][CmdNext]_vars

\* the same with every write call returning and every armed 3 s timer firing
SpecCmdLive ==
  InitConnected /\ [][CmdNext]_vars /\ WF_vars(WriteReturned) /\ WF_vars(BuzzerTimeout)

\* C24: every sent command leaves the pending state (by an acknowledgement,
\* the 3 s timeout or a write error), given that the write call returns.
CommandLeavesPending == buzzerLoading ~> ~buzzerLoading

\* a command was written, its write returned and its timer is armed while it
\* is pending
CommandLeavesPendingWitness ==
  /\ showSearchActions /\ pairedObject # NoObject
  /\ buzzerLoading /\ \E c \in 1..MaxCommands : commands[c] = "timer"

\* the 3 s timer of a command fired on the mounted screen
CommandTimedOut ==
  /\ showSearchActions /\ showSearchActions'
  /\ \E c \in 1..MaxCommands : commands[c] = "timer" /\ commands'[c] = "free"

\* the write of a command threw
CommandWriteFailed == alert' = BuzzerFailedAlert

\* C25: when the pending state is cleared by the 3 s timeout or by a write
\* error the buzzer state is unchanged; on the mounted screen the buzzer
\* state changes in no step that is a press, a return of the write, a timer
\* or a poll, which leaves the acknowledgement notification.
TimeoutLeavesBuzzerState ==
  [][/\ (CommandTimedOut \/ CommandWriteFailed)
          => ~buzzerLoading' /\ buzzerState' = buzzerState
     /\ (showSearchActions /\ showSearchActions' /\ buzzerState' # buzzerState)
          => /\ commands' = commands /\ ~pressed'
             /\ ~rssiRead'.done /\ alert' = NoAlert]_vars

\* the write of a command failed while the buzzer was on, and it is still on
TimeoutLeavesBuzzerStateWitness ==
  /\ showSearchActions /\ pairedObject # NoObject
  /\ alert = BuzzerFailedAlert /\ buzzerState /\ ~buzzerLoading

SlotsNext ==
  \/ PassiveDiscovery
  \/ UpdateRSSI
  \/ HandleDisconnectModalClose
  \/ DeviceDisconnected

\* passive discovery with one object bound to device 1, during the
\* connection and on the home screen after it
SpecSlots == InitConnected /\ [][SlotsNext]_vars

\* the passive scan callback received an advertisement, with a name, of the
\* device that object i is bound to
BoundDeviceDiscovered(i) ==
  /\ discovered'.seen /\ discovered'.errorCode = 0
  /\ discovered'.name # NoName
  /\ discovered'.id # NoDevice /\ objects[i].deviceId = discovered'.id

\* C26: a passive discovery event whose radio id equals the bound deviceId
\* of an object updates the reading of that object's slot and of no other
\* slot.
BoundIdAttributedToItsSlot ==
  [][\A i \in 1..Len(objects) :
       BoundDeviceDiscovered(i)
         => /\ rssiMap'[objects[i].tag] = discovered'.rssi
            /\ \A tg \in TagValues \ {objects[i].tag} : rssiMap'[tg] = rssiMap[tg]]_vars


\* the passive scan callback received an advertisement that it matches to
\* the registered slots: one with a radio id and the locator's name
MatchedObservation(d) ==
  d.seen /\ d.errorCode = 0 /\ d.id # NoDevice /\ d.name = ESP32_DEVICE_NAME

\* C27: when two matched observations with readings A and then B are handled
\* one after the other, every registered slot holds A after the first and B
\* after the second, and the slot's row shows B with the label that the
\* classification gives B (n/a while the radio is flagged off): the reading
\* is overwritten unconditionally, with no value between A and B.
LastObservationWins ==
  [][(MatchedObservation(discovered) /\ MatchedObservation(discovered'))
       => \A i \in 1..Len(objects) :
            /\ rssiMap[objects[i].tag] = discovered.rssi
            /\ rssiMap'[objects[i].tag] = discovered'.rssi
            /\ signalSection(S0, objects[i])' =
                 IF bluetoothOff'
                 THEN [signalValue |-> NoRssi, signalLabel |-> "",
                       color |-> getSignalIcon(NoRssi, TRUE).color]
                 ELSE [signalValue |-> discovered'.rssi,
                       signalLabel |-> getSignalIcon(discovered'.rssi, FALSE).label,
                       color |-> getSignalIcon(discovered'.rssi, FALSE).color]]_vars

\* a slot shows the reading and the label of a matched observation, and the
\* scan can deliver a matched observation with another reading next
LastObservationWinsWitness ==
  /\ MatchedObservation(discovered) /\ Len(objects) > 0 /\ ~bluetoothOff
  /\ signalSection(S0, objects[1]).signalValue = discovered.rssi
  /\ signalSection(S0, objects[1]).signalLabel = "very near"
  /\ ENABLED (PassiveDiscovery /\ MatchedObservation(discovered')
                /\ discovered'.rssi # discovered.rssi)


\* ------------------------------------------------ classification of readings
\* the search-actions screen with any reading in the slots and on the
\* screen, the radio flagged off or not
InitSignal ==
  \E r \in Readings \cup {NoRssi}, radioOff \in BOOLEAN :
    \E c \in {NoRssi} \cup {v \in Readings : v >= ConnectionLostBelow} :
      InitSearchActions([t \in TagValues |-> r], c, radioOff)

\* a matched passive observation with any reading
ObserveReading ==
  /\ scan.kind = "passive" /\ adapter = "PoweredOn"
  /\ \E rssi \in Readings :
       Step(S0, passiveScanCallback(S0, 0, 1, ESP32_DEVICE_NAME, rssi))

\* a poll of the search-actions screen that reads any reading
PollReading ==
  /\ SearchScreen(S0) /\ connectedDevice # NoDevice
  /\ connectedDevice \in links /\ adapter = "PoweredOn"
  /\ \E v \in Readings : Step(S0, updateRSSI(S0, FALSE, v))

SignalNext ==
  \/ ObserveReading
  \/ PollReading
  \/ PassiveScanError
  \/ HandleDisconnectModalClose

\* the classification functions applied by every render to readings of all
\* bands
SpecSignal == InitSignal /\ [][SignalNext]_vars

\* C28: the home-screen classification of a slot is "very near" for a known
\* reading of -40 or more, "far" for a known reading below -40, and "n/a"
\* exactly when the reading is unknown or the radio is flagged off.
HomeClassification ==
  \A t \in TagValues :
    LET label == rendered.signal[t].label
        known == rssiMap[t] # NoRssi /\ ~bluetoothOff
    IN /\ (known /\ rssiMap[t] >= -40) => label = "very near"
       /\ (known /\ rssiMap[t] < -40) => label = "far"
       /\ label = "n/a" <=> ~known

\* a known reading just below the band limit is classified with the radio on
HomeClassificationWitness ==
  /\ discovered.seen /\ discovered.rssi = -41
  /\ rssiMap[TAGS[1]] = -41 /\ ~bluetoothOff
  /\ rendered.signal[TAGS[1]].label = "far"


\* the bands in order of strength
HomeBand(label) == IF label = "very near" THEN 2 ELSE 1
SearchBand(label) ==
  IF label = "Super Near" THEN 4
  ELSE IF label = "Near" THEN 3
  ELSE IF label = "Far" THEN 2
  ELSE 1

\* C29: the classification is monotonic: when a known reading is replaced
\* by a known reading that is at least as strong, the new label is of a band
\* at least as strong, and when it is replaced by one at most as strong the
\* new label is of a band at most as strong; for the bands of the home
\* screen and for those of the search-actions screen.
ClassificationMonotonic ==
  [][/\ \A t \in TagValues :
          (rssiMap[t] # NoRssi /\ rssiMap'[t] # NoRssi /\ ~bluetoothOff /\ ~bluetoothOff')
            => /\ rssiMap'[t] >= rssiMap[t]
                    => HomeBand(rendered'.signal[t].label) >= HomeBand(rendered.signal[t].label)
               /\ rssiMap'[t] <= rssiMap[t]
                    => HomeBand(rendered'.signal[t].label) <= HomeBand(rendered.signal[t].label)
     /\ (currentRssi # NoRssi /\ currentRssi' # NoRssi)
          => /\ rendered.proximity # "" /\ rendered'.proximity # ""
             /\ currentRssi' >= currentRssi
                  => SearchBand(rendered'.proximity) >= SearchBand(rendered.proximity)
             /\ currentRssi' <= currentRssi
                  => SearchBand(rendered'.proximity) <= SearchBand(rendered.proximity)]_vars

\* the search-actions screen shows a reading at the lower limit of a band,
\* and the next poll can read the reading below it
ClassificationMonotonicWitness ==
  /\ rssiRead.done /\ currentRssi = -65 /\ rendered.proximity = "Near"
  /\ ENABLED (PollReading /\ currentRssi' = -66)


\* the passive scan callback received an error
ScanErrorReported == discovered'.seen /\ discovered'.errorCode # 0

\* C30: a scan error with the code 102 or 201 sets the radio-off flag and
\* resets every reading to unknown; a scan error with any other code changes
\* neither the flag nor a reading, stops no scan and leaves the scan listener
\* in place.
ScanErrorHandling ==
  [][ScanErrorReported
       => IF discovered'.errorCode \in {102, 201}
          THEN bluetoothOff' /\ \A t \in TagValues : rssiMap'[t] = NoRssi
          ELSE /\ bluetoothOff' = bluetoothOff /\ rssiMap' = rssiMap
               /\ scan' = scan /\ scan'.kind = "passive"
               /\ scanEffect' = scanEffect /\ calls' = <<>>]_vars

\* a scan error with another code arrived while readings were known and the
\* radio was not flagged off: the readings and the scan are still there
ScanErrorHandlingWitness ==
  /\ discovered.seen /\ discovered.errorCode = ErrOther
  /\ ~bluetoothOff /\ scan.kind = "passive"
  /\ \E t \in TagValues : rssiMap[t] # NoRssi


\* handlePairAuthSubmit found the typed password different from the password
\* of the object selected for pairing and raised the Incorrect Password modal
PairingPasswordMismatch ==
  /\ pairAuthModalVisible /\ ~pairAuthModalVisible'
  /\ incorrectPasswordModalVisible' /\ ~scanningModalVisible'

\* C31: after a pairing password mismatch, "Try Again" reopens the pairing
\* password prompt for the same selected object and not the prompt of the
\* edit flow, and "Go back" leaves no prompt open and starts no scan.
MismatchOffersRetryOrCancel ==
  [][PairingPasswordMismatch
       => LET tryAgain == Render(S0, incorrectPasswordTryAgain(S0))'
              goBack == Render(S0, [S0 EXCEPT !.incorrectPasswordModalVisible = FALSE])'
          IN /\ tryAgain.pairAuthModalVisible /\ ~tryAgain.authModalVisible
             /\ ~tryAgain.incorrectPasswordModalVisible
             /\ tryAgain.selectedObjectForPairing = selectedObjectForPairing
             /\ ~goBack.pairAuthModalVisible /\ ~goBack.authModalVisible
             /\ ~goBack.incorrectPasswordModalVisible /\ ~goBack.scanningModalVisible
             /\ goBack.calls = <<>> /\ goBack.attempts = attempts']_vars


\* the passive scan callback received an advertisement that it matches to no
\* slot: the radio id or the name is missing, or the name is not the
\* locator's
UnmatchedObservation ==
  /\ discovered'.seen /\ discovered'.errorCode = 0
  /\ \/ discovered'.id = NoDevice
     \/ discovered'.name = NoName
     \/ discovered'.name # ESP32_DEVICE_NAME

AcknowledgementByToken ==
  [][notified'.seen
       => IF ~notified'.error /\ notified'.value = "BUZZER_ON"
          THEN buzzerState' /\ ~buzzerLoading'
          ELSE IF ~notified'.error /\ notified'.value = "BUZZER_OFF"
          THEN ~buzzerState' /\ ~buzzerLoading'
          ELSE buzzerState' = buzzerState /\ buzzerLoading' = buzzerLoading]_vars

\* BUZZER_ON arrived for a command whose 3 s timer is still armed
AcknowledgementByTokenWitness ==
  /\ notified.seen /\ ~notified.error /\ notified.value = BUZZER_ON
  /\ buzzerState /\ ~buzzerLoading
  /\ \E c \in 1..MaxCommands : commands[c] = "timer"


\* handleBuzzerPress sent a command, which is now pending
CommandSent == pressed' /\ written' /\ buzzerLoading'

\* C39: the 3 s timer armed by an earlier command does not clear the pending
\* state of a later command: when a command has just been sent, the firing
\* of a timer that was armed before leaves it pending.
StaleTimerKeepsPending ==
  [][CommandSent
       => \A c \in 1..MaxCommands :
            commands'[c] = "timer" => Render(S0, buzzerTimeout(S0, c))'.buzzerLoading]_vars


\* C35: once a pairing attempt has reported failure, no discovery event that
\* its scan callback receives starts a connection (and so none binds a
\* deviceId or starts the RSSI poll): the attempt issues no connect, no
\* service discovery and no save afterwards.
FailedAttemptStaysFailed ==
  [][\A a \in 1..MaxAttempts :
       attempts[a].resolved = "false"
         => /\ attempts'[a].pc \notin {"connect", "discover", "save"}
            /\ ~attempts'[a].foundDevice]_vars


\* attempt a issues device.connect() in this step
ConnectIssued(a) == attempts'[a].pc = "connect" /\ attempts[a].pc # "connect"

\* C37: within one pairing attempt at most one connect is issued: once the
\* attempt has found its device, no step issues a connect for it again, and
\* a further advertisement with the locator's name handed to its scan
\* callback changes nothing and makes no radio call.
AtMostOneConnect ==
  [][\A a \in 1..MaxAttempts :
       attempts[a].foundDevice
         => /\ ~ConnectIssued(a)
            /\ \A id \in DeviceIds :
                 LET s == targetedScanCallback(S0, a, FALSE, ESP32_DEVICE_NAME, id)
                 IN s.attempts = attempts /\ s.calls = <<>> /\ s.scan = scan]_vars

\* an attempt has just found the device: it stopped the scan and its
\* connect is in flight
AtMostOneConnectWitness ==
  \E a \in 1..MaxAttempts :
    /\ attempts[a].foundDevice /\ attempts[a].pc = "connect"
    /\ attempts[a].device \in DeviceIds
    /\ Len(calls) = 1 /\ calls[1].op = "stop" /\ calls[1].live = TargetedScan(a)


\* the step destroys the radio manager
ManagerDestroyed == \E k \in 1..Len(calls') : calls'[k].op = "destroy"

\* the connection made by a pairing attempt is held over the step: the
\* attempt connected and goes on to bind and save the device, or the
\* connected device is kept
ConnectionHeld ==
  \/ \E a \in 1..MaxAttempts :
       attempts[a].pc \in {"discover", "save"} /\ attempts'[a].pc \in {"save", "end"}
         /\ attempts'[a].resolved # "false"
  \/ connectedDevice # NoDevice /\ connectedDevice' = connectedDevice

\* C36: a successful pairing does not destroy the radio manager through
\* which the connection was made: no step during which the connection is
\* held destroys the manager.
PairingKeepsManager ==
  [][ConnectionHeld => ~ManagerDestroyed]_vars


\* attempt a, having connected and discovered the services, writes the
\* object list with the device id bound
PairingWritesObjects(a) == attempts[a].pc = "discover" /\ attempts'[a].pc = "save"

\* C38: an edit completed while a pairing attempt is in flight is not lost:
\* when the attempt writes the object list, the list in memory and the
\* persisted list keep every name and password as they were and have the
\* device id on the paired object.
PairingKeepsEdits ==
  [][\A a \in 1..MaxAttempts :
       PairingWritesObjects(a)
         => /\ Len(objects') = Len(objects) /\ storage'.objects = objects'
            /\ \A i \in 1..Len(objects) :
                 /\ objects'[i].tag = objects[i].tag
                 /\ objects'[i].name = objects[i].name
                 /\ objects'[i].password = objects[i].password
                 /\ objects'[i].tag = attempts[a].sel.tag
                      => objects'[i].deviceId = attempts[a].device]_vars


\* ------------------------------------------- pairing attempts to their end
\* the user selects the first object for pairing
SelectFirstObject ==
  /\ MainInteractive(S0) /\ selectedObjectForPairing = NoObject
  /\ Step(S0, handleObjectSelect(S0, objects[1]))

\* the user types the password of the selected object into the prompt
TypeCorrectPassword ==
  /\ ModalInteractive(S0) /\ pairAuthModalVisible
  /\ pairAuthPassword # selectedObjectForPairing.password
  /\ Step(S0, [S0 EXCEPT !.pairAuthPassword = selectedObjectForPairing.password])

AttemptNext ==
  \/ SelectFirstObject
  \/ HandlePairClick
  \/ TypeCorrectPassword
  \/ HandlePairAuthSubmit
  \/ CancelScanningModal
  \/ PairingPermissionResult
  \/ TargetedScanError
  \/ TargetedDiscovery
  \/ ConnectReturned
  \/ DiscoverReturned
  \/ ObjectsSaved
  \/ PairingTimeout
  \/ HandlePairingSuccess

\* pairing attempts with the correct password, also two at a time, with
\* every pending promise and timer of an attempt eventually served
SpecAttemptLive == InitPaired /\ [][AttemptNext]_vars /\ WF_vars(PairingProgress)

\* attempt a ended paired: it reported success, the scanning indicator is
\* closed and the connection it made is held
AttemptPaired(a) ==
  /\ attempts[a].resolved = "true" /\ ~scanningModalVisible
  /\ connectedDevice = attempts[a].device

\* attempt a ended in failure with the system idle again: the scanning
\* indicator is closed, nothing is selected for pairing and the passive scan
\* is the running scan
AttemptFailedToIdle(a) ==
  /\ attempts[a].resolved = "false" /\ ~scanningModalVisible
  /\ selectedObjectForPairing = NoObject /\ scan.kind = "passive"

\* C34: every pairing attempt started with the correct password eventually
\* concludes, with the scanning indicator closed, either paired or failed
\* with the system back in its idle, passively scanning state (timers fire
\* and every pending call of the attempt returns in SpecAttemptLive).
AttemptConcludes ==
  \A a \in 1..MaxAttempts :
    (attempts[a].resolved = "pending") ~> (AttemptPaired(a) \/ AttemptFailedToIdle(a))


\* the user answers the "Permissions Required" modal
PermissionModalAnswered == permissionModalVisible /\ ~permissionModalVisible'

\* the user answers the "Grant Permissions" modal
GrantModalAnswered == grantModalVisible /\ ~grantModalVisible'

\* C40: when the user answers a permission modal, every request that waits
\* for that modal is resolved, also when two scan starts asked concurrently:
\* no caller of requestBlePermissionsCustom or showGrantModal keeps waiting.
EveryPermissionRequestResolved ==
  [][/\ PermissionModalAnswered
          => \A t \in 1..MaxTasks : tasks[t].pc = "rbp_modal" => tasks'[t].pc # "rbp_modal"
     /\ GrantModalAnswered
          => \A t \in 1..MaxTasks : tasks[t].pc = "sgm_modal" => tasks'[t].pc # "sgm_modal"]_vars

====
